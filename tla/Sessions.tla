------------------------------ MODULE Sessions ------------------------------
(***************************************************************************)
(* Multipart upload sessions (internal/multipart/session.go): the manager  *)
(* with its two maps, the sessions with their upload attempts, one         *)
(* pipeline goroutine per attempt, the requests Init, Chunk, Complete and  *)
(* Abort, and the expiry loop.                                             *)
(*                                                                         *)
(* Every critical section of m.mu or s.mu is one action; between two of    *)
(* them any other goroutine may run.  A window appears as what ChunkStream *)
(* promises of it, a chunk at a time.  Windows are named by session and    *)
(* attempt, as their ring files are.  All clients upload to one key (user, *)
(* path and size); a request for a session of another user is answered     *)
(* ErrNotOwner and changes nothing.  Status and Find only read and touch   *)
(* lastActive, which is left out: any session may be found expired.        *)
(*                                                                         *)
(* An operator named Slip... is a slip of the definition that follows it.  *)
(* It is not part of the specification: some property notices the slip.    *)
(***************************************************************************)
EXTENDS Integers, FiniteSets

CONSTANTS
  Sids,        \* the sessions that may be created
  Clients,
  File,        \* per client: the file it uploads
  Hash,        \* per client: the hash it sends with Init, or NoHash
  Reqs,        \* the concurrent requests
  Gc,          \* the expiry loop
  Total,       \* number of chunks
  MaxAttempt,  \* bound: the attempts of a session are 0 .. MaxAttempt
  MaxRequests, \* bound: the requests sent and expiry scans made
  NoHash, Null

Attempts == 0 .. MaxAttempt
Chunks == 0 .. Total - 1
Procs == Reqs \union {Gc}
Files == {File[c] : c \in Clients}

ASSUME SessionsAssumption ==
  /\ Total \in Nat \ {0}
  /\ MaxAttempt \in Nat
  /\ Gc \notin Reqs
  /\ Null \notin Files /\ Null \notin Sids /\ Null \notin Attempts
  /\ Null \notin {"put", "changed", "terminated"}

(* Files with the same hash are the same file: no collisions. *)
ASSUME HashAssumption ==
  \A c, d \in Clients : Hash[c] = Hash[d] /\ Hash[c] # NoHash => File[c] = File[d]

VARIABLES
  byID, byKey,     \* the manager's maps; byKey is the entry of the one key
  state, err,      \* per session: s.state ("new" before Init), s.err (Null: nil)
  attempt,         \* per session: s.attempt
  win,             \* per session: the attempt s.win belongs to, or Null
  done,            \* per session: the attempt s.done belongs to
  prev,            \* per session: s.prevCRCs, Null where prevSet is false
  hashes,          \* per session: s.Hashes
  got,             \* per window: the chunks received
  open,            \* per window: no sticky error yet
  pos,             \* per window: chunks read by the driver
  pipe,            \* per attempt: where its goroutine is
  res,             \* per attempt: what put returned
  harvest,         \* per attempt: the CRC table finishAttempt read
  proc,            \* per request: its local state
  known,           \* per client: the sessions Init told it of
  sent             \* the requests sent and scans made, for the bound

sessVars == <<state, err, attempt, win, done, prev, hashes>>
winVars  == <<got, open, pos>>
pipeVars == <<pipe, res, harvest>>
mapVars  == <<byID, byKey>>
vars == <<mapVars, sessVars, winVars, pipeVars, proc, known, sent>>

-----------------------------------------------------------------------------
Idle == [pc |-> "idle"]

PerAttempt(v) == [s \in Sids |-> [k \in Attempts |-> v]]
NoChunks == [i \in Chunks |-> Null]

Init ==
  /\ byID = {} /\ byKey = Null
  /\ state = [s \in Sids |-> "new"]
  /\ err = [s \in Sids |-> Null]
  /\ attempt = [s \in Sids |-> 0]
  /\ win = [s \in Sids |-> Null]
  /\ done = [s \in Sids |-> 0]
  /\ prev = [s \in Sids |-> NoChunks]
  /\ hashes = [s \in Sids |-> NoHash]
  /\ got = PerAttempt(NoChunks)
  /\ open = PerAttempt(FALSE)
  /\ pos = PerAttempt(0)
  /\ pipe = PerAttempt("none")
  /\ res = PerAttempt(Null)
  /\ harvest = PerAttempt(NoChunks)
  /\ proc = [r \in Procs |-> Idle]
  /\ known = [c \in Clients |-> {}]
  /\ sent = 0

Goto(r, local) == proc' = [proc EXCEPT ![r] = local]

Send == sent < MaxRequests /\ sent' = sent + 1

(* The request is answered. *)
Return(r) == Goto(r, Idle)

(* What snapshotLocked reports as received. *)
Received(s) ==
  IF state[s] = "completed" THEN Chunks
  ELSE IF win[s] # Null THEN {i \in Chunks : got[s][win[s]][i] # Null}
  ELSE {}

-----------------------------------------------------------------------------
(* startAttemptLocked, NewWindow having succeeded. *)
startAttemptLocked(s) ==
  LET k == attempt[s] IN
  /\ win' = [win EXCEPT ![s] = k]
  /\ done' = [done EXCEPT ![s] = k]
  /\ state' = [state EXCEPT ![s] = "receiving"]
  /\ err' = [err EXCEPT ![s] = Null]
  /\ open' = [open EXCEPT ![s][k] = TRUE]
  /\ pipe' = [pipe EXCEPT ![s][k] = "put"]
  /\ UNCHANGED <<got, pos, res, harvest>>

SlipCancelOnly(s) == UNCHANGED open

(* killAttemptLocked: cancel the context and close the window. *)
killAttemptLocked(s) ==
  open' = IF win[s] = Null THEN open ELSE [open EXCEPT ![s][win[s]] = FALSE]

SlipNothingShared(old, new) == NoHash \in {old, new} \/ old = new

(* Both sent a hash, and the same. *)
hashesQualifyResume(old, new) == old # NoHash /\ old = new

-----------------------------------------------------------------------------
(* Init *)

InitLookup(r, c) ==
  LET s == byKey
      resume == \/ state[s] = "failed_retriable"
                \/ state[s] = "receiving" /\ hashesQualifyResume(hashes[s], Hash[c])
  IN
  /\ proc[r].pc = "idle" /\ Send
  /\ \/ /\ s = Null
        /\ Goto(r, [pc |-> "create", c |-> c])
        /\ UNCHANGED known
     \/ /\ s # Null /\ resume
        /\ known' = [known EXCEPT ![c] = @ \union {s}]
        /\ Return(r)
     \/ /\ s # Null /\ ~resume
        /\ Goto(r, [pc |-> "terminate", s |-> s, then |-> [pc |-> "create", c |-> c]])
        /\ UNCHANGED known
  /\ UNCHANGED <<mapVars, sessVars, winVars, pipeVars>>

(* The new session starts its first attempt before anybody can find it. *)
InitCreate(r, s) ==
  /\ proc[r].pc = "create"
  /\ state[s] = "new"
  /\ startAttemptLocked(s)
  /\ hashes' = [hashes EXCEPT ![s] = Hash[proc[r].c]]
  /\ Goto(r, [pc |-> "insert", c |-> proc[r].c, s |-> s])
  /\ UNCHANGED <<mapVars, attempt, prev, known, sent>>

(* NewWindow failed. *)
InitFails(r) ==
  /\ proc[r].pc = "create"
  /\ Return(r)
  /\ UNCHANGED <<mapVars, sessVars, winVars, pipeVars, known, sent>>

InitInsert(r) ==
  LET s == proc[r].s IN
  /\ proc[r].pc = "insert"
  /\ byID' = byID \union {s}
  /\ byKey' = s
  /\ known' = [known EXCEPT ![proc[r].c] = @ \union {s}]
  /\ Return(r)
  /\ UNCHANGED <<sessVars, winVars, pipeVars, sent>>

-----------------------------------------------------------------------------
(* terminate, called by Init, Abort and the expiry loop: the session's     *)
(* critical section, then the manager's.                                   *)

Terminate(r) ==
  LET s == proc[r].s IN
  /\ proc[r].pc = "terminate"
  /\ IF state[s] = "receiving"
       THEN /\ state' = [state EXCEPT ![s] = "aborted"]
            /\ err' = [err EXCEPT ![s] = "terminated"]
       ELSE UNCHANGED <<state, err>>
  /\ killAttemptLocked(s)
  /\ Goto(r, [pc |-> "remove", s |-> s, then |-> proc[r].then])
  /\ UNCHANGED <<mapVars, attempt, win, done, prev, hashes, got, pos, pipeVars, known, sent>>

SlipDropKey(r) ==
  /\ proc[r].pc = "remove"
  /\ byID' = byID \ {proc[r].s}
  /\ byKey' = Null
  /\ Goto(r, proc[r].then)
  /\ UNCHANGED <<sessVars, winVars, pipeVars, known, sent>>

Remove(r) ==
  LET s == proc[r].s IN
  /\ proc[r].pc = "remove"
  /\ byID' = byID \ {s}
  /\ byKey' = IF byKey = s THEN Null ELSE byKey
  /\ Goto(r, proc[r].then)
  /\ UNCHANGED <<sessVars, winVars, pipeVars, known, sent>>

Abort(r, c, s) ==
  /\ proc[r].pc = "idle" /\ Send
  /\ s \in known[c] /\ s \in byID
  /\ Goto(r, [pc |-> "terminate", s |-> s, then |-> Idle])
  /\ UNCHANGED <<mapVars, sessVars, winVars, pipeVars, known>>

(* gc: the sessions found expired are terminated one after the other.  Any *)
(* session may have been inactive for the TTL: lastActive is left out.     *)
GcChain(S) ==
  LET f[T \in SUBSET S] ==
        IF T = {} THEN Idle
        ELSE LET s == CHOOSE x \in T : TRUE
             IN [pc |-> "terminate", s |-> s, then |-> f[T \ {s}]]
  IN f[S]

GcScan(expired) ==
  /\ proc[Gc].pc = "idle" /\ expired # {} /\ Send
  /\ Goto(Gc, GcChain(expired))
  /\ UNCHANGED <<mapVars, sessVars, winVars, pipeVars, known>>

-----------------------------------------------------------------------------
(* The pipeline goroutine of attempt k of session s. *)

(* External: the driver reads the next chunk of the window; a read under   *)
(* way when the window is closed may still return it.                      *)
Deliver(s, k) ==
  /\ pipe[s][k] = "put"
  /\ pos[s][k] < Total /\ got[s][k][pos[s][k]] # Null
  /\ pos' = [pos EXCEPT ![s][k] = @ + 1]
  /\ UNCHANGED <<mapVars, sessVars, got, open, pipeVars, proc, known, sent>>

Success == {"stored", "rapid"}
Results == Success \union {"retriable", "permanent"}

(* External: putFile returns.  It succeeds when the driver has read the    *)
(* file, or without reading it when the storage already has it (rapid      *)
(* upload); it may fail at any time.  op.Put closes the stream; putFile    *)
(* may fail before it comes to op.Put.                                     *)
PutReturns(s, k, result, opPut) ==
  /\ pipe[s][k] = "put"
  /\ result = "stored" => pos[s][k] = Total
  /\ result \in Success => opPut
  /\ result = "retriable" => k < MaxAttempt
  /\ pipe' = [pipe EXCEPT ![s][k] = "harvest"]
  /\ res' = [res EXCEPT ![s][k] = result]
  /\ open' = IF opPut THEN [open EXCEPT ![s][k] = FALSE] ELSE open
  /\ UNCHANGED <<mapVars, sessVars, got, pos, harvest, proc, known, sent>>

(* finishAttempt: win.CRCs(), win.Close(), then the section of s.mu. *)
Harvest(s, k) ==
  /\ pipe[s][k] = "harvest"
  /\ harvest' = [harvest EXCEPT ![s][k] = got[s][k]]
  /\ pipe' = [pipe EXCEPT ![s][k] = "close"]
  /\ UNCHANGED <<mapVars, sessVars, winVars, res, proc, known, sent>>

CloseWindow(s, k) ==
  /\ pipe[s][k] = "close"
  /\ open' = [open EXCEPT ![s][k] = FALSE]
  /\ pipe' = [pipe EXCEPT ![s][k] = "finish"]
  /\ UNCHANGED <<mapVars, sessVars, got, pos, res, harvest, proc, known, sent>>

isPermanentPutError(result) == result = "permanent"

SlipNotAborted(s) == state[s] # "aborted"

(* Abort, expiry or a changed chunk has labelled the attempt. *)
Labelled(s) == state[s] # "receiving"

finishAttempt(s, k) ==
  /\ pipe[s][k] = "finish"
  /\ win' = IF win[s] = k THEN [win EXCEPT ![s] = Null] ELSE win
  /\ prev' = [prev EXCEPT ![s] = harvest[s][k]]
  /\ \/ /\ res[s][k] \in Success
        /\ state' = [state EXCEPT ![s] = "completed"]
        /\ err' = [err EXCEPT ![s] = Null]
        /\ UNCHANGED attempt
     \/ /\ res[s][k] \notin Success /\ Labelled(s)
        /\ err' = IF err[s] = Null THEN [err EXCEPT ![s] = "put"] ELSE err
        /\ UNCHANGED <<state, attempt>>
     \/ /\ res[s][k] \notin Success /\ ~Labelled(s)
        /\ isPermanentPutError(res[s][k])
        /\ state' = [state EXCEPT ![s] = "failed_permanent"]
        /\ err' = [err EXCEPT ![s] = "put"]
        /\ UNCHANGED attempt
     \/ /\ res[s][k] \notin Success /\ ~Labelled(s)
        /\ ~isPermanentPutError(res[s][k])
        /\ state' = [state EXCEPT ![s] = "failed_retriable"]
        /\ err' = [err EXCEPT ![s] = "put"]
        /\ attempt' = [attempt EXCEPT ![s] = @ + 1]
  /\ pipe' = [pipe EXCEPT ![s][k] = "signal"]
  /\ got' = [got EXCEPT ![s][k] = NoChunks]          \* the window is garbage now
  /\ pos' = [pos EXCEPT ![s][k] = 0]
  /\ harvest' = [harvest EXCEPT ![s][k] = NoChunks]
  /\ UNCHANGED <<mapVars, done, hashes, open, res, proc, known, sent>>

CloseDone(s, k) ==
  /\ pipe[s][k] = "signal"
  /\ pipe' = [pipe EXCEPT ![s][k] = "done"]
  /\ UNCHANGED <<mapVars, sessVars, winVars, res, harvest, proc, known, sent>>

-----------------------------------------------------------------------------
(* Chunk *)

ChunkGet(r, c, s, idx) ==
  /\ proc[r].pc = "idle" /\ Send
  /\ s \in known[c] /\ s \in byID
  /\ Goto(r, [pc |-> "chunk", s |-> s, idx |-> idx, body |-> File[c]])
  /\ UNCHANGED <<mapVars, sessVars, winVars, pipeVars, known>>

(* The request holds window k and remembers the chunk's previous CRC. *)
Writing(r, k) ==
  Goto(r, [pc |-> "write", s |-> proc[r].s, idx |-> proc[r].idx, body |-> proc[r].body,
           k |-> k, was |-> prev[proc[r].s][proc[r].idx]])

SlipRevive(s) == state[s] \in {"failed_retriable", "aborted"}

CanRefill(s) == state[s] = "failed_retriable"

ChunkEnter(r) ==
  LET s == proc[r].s IN
  /\ proc[r].pc = "chunk"
  /\ \/ /\ state[s] = "receiving"
        /\ Writing(r, win[s])
        /\ UNCHANGED <<sessVars, winVars, pipeVars>>
     \/ /\ CanRefill(s) /\ proc[r].idx = 0
        /\ startAttemptLocked(s)
        /\ Writing(r, attempt[s])
        /\ UNCHANGED <<attempt, prev, hashes>>
     \/ /\ CanRefill(s)                                \* not chunk 0, or NewWindow failed
        /\ Return(r)
        /\ UNCHANGED <<sessVars, winVars, pipeVars>>
     \/ /\ state[s] = "completed"
        /\ Return(r)
        /\ UNCHANGED <<sessVars, winVars, pipeVars>>
     \/ /\ state[s] \in {"failed_permanent", "aborted"}
        /\ Return(r)
        /\ UNCHANGED <<sessVars, winVars, pipeVars>>
  /\ UNCHANGED <<mapVars, known, sent>>

(* win.WriteChunk accepts the chunk, or has it already and answers with    *)
(* the CRC it has.  A CRC that differs from the previous attempt's is a    *)
(* changed file.                                                           *)
ChunkWrite(r) ==
  LET s == proc[r].s
      k == proc[r].k
      idx == proc[r].idx
      crc == IF got[s][k][idx] = Null THEN proc[r].body ELSE got[s][k][idx]
  IN
  /\ proc[r].pc = "write"
  /\ open[s][k]
  /\ got' = [got EXCEPT ![s][k][idx] = crc]
  /\ IF proc[r].was # Null /\ crc # proc[r].was
       THEN Goto(r, [pc |-> "changed", s |-> s])
       ELSE Return(r)
  /\ UNCHANGED <<mapVars, sessVars, open, pos, pipeVars, known, sent>>

ChunkChanged(r) ==
  LET s == proc[r].s IN
  /\ proc[r].pc = "changed"
  /\ state' = [state EXCEPT ![s] = "failed_permanent"]
  /\ err' = [err EXCEPT ![s] = "changed"]
  /\ killAttemptLocked(s)
  /\ Return(r)
  /\ UNCHANGED <<mapVars, attempt, win, done, prev, hashes, got, pos, pipeVars, known, sent>>

(* win.WriteChunk failed.  On a closed window the request waits for the    *)
(* verdict of the attempt s.done belongs to, for 10 seconds at most; on    *)
(* any other error (out of window, in flight, bad body) it does not.       *)
ChunkRefused(r) ==
  LET s == proc[r].s IN
  /\ proc[r].pc = "write"
  /\ \/ /\ ~open[s][proc[r].k]
        /\ Goto(r, [pc |-> "await", s |-> s, k |-> done[s]])
     \/ /\ open[s][proc[r].k]
        /\ Goto(r, [pc |-> "report", s |-> s, judged |-> Null])
  /\ UNCHANGED <<mapVars, sessVars, winVars, pipeVars, known, sent>>

SlipNoWait(r, timeout) ==
  /\ proc[r].pc = "await"
  /\ Goto(r, [pc |-> "report", s |-> proc[r].s,
              judged |-> IF timeout THEN Null ELSE proc[r].k])
  /\ UNCHANGED <<mapVars, sessVars, winVars, pipeVars, known, sent>>

ChunkAwait(r, timeout) ==
  /\ proc[r].pc = "await"
  /\ timeout \/ pipe[proc[r].s][proc[r].k] = "done"
  /\ Goto(r, [pc |-> "report", s |-> proc[r].s,
              judged |-> IF timeout THEN Null ELSE proc[r].k])
  /\ UNCHANGED <<mapVars, sessVars, winVars, pipeVars, known, sent>>

ChunkReport(r) ==
  /\ proc[r].pc = "report"
  /\ Return(r)                    \* success if state[s] = "completed", else the error
  /\ UNCHANGED <<mapVars, sessVars, winVars, pipeVars, known, sent>>

-----------------------------------------------------------------------------
(* Complete *)

CompleteGet(r, c, s) ==
  /\ proc[r].pc = "idle" /\ Send
  /\ s \in known[c] /\ s \in byID
  /\ Goto(r, [pc |-> "complete", s |-> s])
  /\ UNCHANGED <<mapVars, sessVars, winVars, pipeVars, known>>

SlipNotMissing(s) == FALSE

Missing(s) == win[s] # Null /\ Received(s) # Chunks

CompleteLoop(r) ==
  LET s == proc[r].s IN
  /\ proc[r].pc = "complete"
  /\ \/ /\ state[s] = "receiving" /\ Missing(s)
        /\ Return(r)
     \/ /\ state[s] = "receiving" /\ ~Missing(s)
        /\ Goto(r, [pc |-> "wait", s |-> s, k |-> done[s]])
     \/ /\ state[s] # "receiving"
        /\ Goto(r, [pc |-> "verdict", s |-> s])
  /\ UNCHANGED <<mapVars, sessVars, winVars, pipeVars, known, sent>>

CompleteWake(r) ==
  /\ proc[r].pc = "wait"
  /\ pipe[proc[r].s][proc[r].k] = "done"
  /\ Goto(r, [pc |-> "complete", s |-> proc[r].s])
  /\ UNCHANGED <<mapVars, sessVars, winVars, pipeVars, known, sent>>

(* The client went away. *)
CompleteCancelled(r) ==
  /\ proc[r].pc = "wait"
  /\ Return(r)
  /\ UNCHANGED <<mapVars, sessVars, winVars, pipeVars, known, sent>>

CompleteVerdict(r) ==
  LET s == proc[r].s IN
  /\ proc[r].pc = "verdict"
  /\ Goto(r, IF state[s] = "completed" THEN [pc |-> "remove", s |-> s, then |-> Idle] ELSE Idle)
  /\ UNCHANGED <<mapVars, sessVars, winVars, pipeVars, known, sent>>

-----------------------------------------------------------------------------
Pipeline(s, k) ==
  \/ Deliver(s, k)
  \/ \E result \in Results, opPut \in BOOLEAN :
       PutReturns(s, k, result, opPut)
  \/ Harvest(s, k) \/ CloseWindow(s, k) \/ finishAttempt(s, k) \/ CloseDone(s, k)

Request(r) ==
  \/ \E c \in Clients : InitLookup(r, c)
  \/ \E c \in Clients, s \in Sids : Abort(r, c, s) \/ CompleteGet(r, c, s)
  \/ \E c \in Clients, s \in Sids, idx \in Chunks : ChunkGet(r, c, s, idx)

(* The rest of a request under way. *)
Continue(r) ==
  \/ \E s \in Sids : InitCreate(r, s)
  \/ InitFails(r) \/ InitInsert(r)
  \/ ChunkEnter(r) \/ ChunkWrite(r) \/ ChunkRefused(r) \/ ChunkChanged(r)
  \/ \E timeout \in BOOLEAN : ChunkAwait(r, timeout)
  \/ ChunkReport(r)
  \/ CompleteLoop(r) \/ CompleteWake(r) \/ CompleteVerdict(r)

Next ==
  \/ \E s \in Sids, k \in Attempts : Pipeline(s, k)
  \/ \E r \in Reqs : Request(r) \/ Continue(r) \/ CompleteCancelled(r)
  \/ \E r \in Procs : Terminate(r) \/ Remove(r)
  \/ \E expired \in SUBSET byID : GcScan(expired)

Spec == Init /\ [][Next]_vars

(* Goroutines run: a pipeline whose driver has work or has returned goes   *)
(* on, a driver whose window is closed gives up, a request under way goes  *)
(* on.  No client is obliged to send anything or to hang up.               *)
Fairness ==
  /\ \A s \in Sids, k \in Attempts :
       /\ WF_vars(Deliver(s, k))
       /\ WF_vars((~open[s][k] \/ pos[s][k] = Total)
                  /\ \E result \in Results,
                       opPut \in BOOLEAN : PutReturns(s, k, result, opPut))
       /\ WF_vars(Harvest(s, k) \/ CloseWindow(s, k) \/ finishAttempt(s, k) \/ CloseDone(s, k))
  /\ \A r \in Reqs : WF_vars(Continue(r))
  /\ \A r \in Procs : WF_vars(Terminate(r) \/ Remove(r))

FairSpec == Spec /\ Fairness

-----------------------------------------------------------------------------
States == {"new", "receiving", "completed", "failed_retriable", "failed_permanent", "aborted"}
Steps == {"none", "put", "harvest", "close", "finish", "signal", "done"}

(* The types of the manager's, the sessions' and the windows' fields. *)
TypeOK ==
  /\ byID \subseteq Sids /\ byKey \in Sids \union {Null}
  /\ state \in [Sids -> States]
  /\ err \in [Sids -> {Null, "put", "changed", "terminated"}]
  /\ attempt \in [Sids -> Attempts]
  /\ win \in [Sids -> Attempts \union {Null}]
  /\ done \in [Sids -> Attempts]
  /\ prev \in [Sids -> [Chunks -> Files \union {Null}]]
  /\ got \in [Sids -> [Attempts -> [Chunks -> Files \union {Null}]]]
  /\ open \in [Sids -> [Attempts -> BOOLEAN]]
  /\ pos \in [Sids -> [Attempts -> 0 .. Total]]
  /\ pipe \in [Sids -> [Attempts -> Steps]]

Running == {"put", "harvest", "close", "finish"}

(* A receiving session has a window, and a pipeline that will still record *)
(* a verdict: Chunk may use s.win without a nil check, and a Complete that *)
(* waits on s.done is not stranded.                                        *)
ReceivingHasPipeline ==
  \A s \in Sids : state[s] = "receiving" =>
    win[s] # Null /\ win[s] = done[s] /\ pipe[s][win[s]] \in Running

(* An attempt starts only when no other pipeline of the session will still *)
(* record a verdict: no finishAttempt drops the window or overwrites the   *)
(* CRC table of a newer attempt, no two attempts share a ring file.        *)
AttemptsDisjoint ==
  [][\A s \in Sids : state[s] # "receiving" /\ state'[s] = "receiving" =>
       \A k \in Attempts : pipe[s][k] \notin Running]_vars

(* Every failed session has a cause to report, and only failed ones do     *)
(* (the errors are wrapped with %w s.err).                                 *)
FailureHasCause ==
  \A s \in Sids : err[s] = Null <=> state[s] \in {"new", "receiving", "completed"}

(* Path and size alone do not make two uploads one: the chunks a first     *)
(* attempt receives all come from the same file.                           *)
NoMixedUpload ==
  \A s \in Sids, i, j \in Chunks :
    got[s][0][i] # Null /\ got[s][0][j] # Null => got[s][0][i] = got[s][0][j]

(* A straggler that found the window closed and waited for the verdict is  *)
(* told of a failure only when that attempt did not succeed, or when a     *)
(* changed chunk made the session fail.                                    *)
StragglersAbsorbed ==
  [][\A r \in Reqs :
       LET s == proc[r].s IN
       proc[r].pc = "report" /\ proc'[r].pc = "idle" /\ proc[r].judged # Null =>
         \/ state[s] = "completed"
         \/ res[s][proc[r].judged] \notin Success
         \/ err[s] = "changed"]_vars

(* The key is dropped only with the session it leads to: the late removal  *)
(* of a superseded session spares its successor (remove compares the ids). *)
RemovalSparesSuccessor ==
  [][byKey # Null /\ byKey' = Null => byKey \notin byID']_vars

(* Complete never parks a connection for good: it waits only for a         *)
(* pipeline that has all its chunks, or is being torn down, and is woken   *)
(* when the pipeline ends.                                                 *)
CompleteAnswered ==
  \A r \in Reqs : proc[r].pc = "wait" ~> proc[r].pc # "wait"

(* The pipeline of a session that was aborted, expired, superseded or      *)
(* found changed ends, though no context interrupts a driver that waits    *)
(* for a chunk (the comment on killAttemptLocked).                         *)
KilledPipelineEnds ==
  \A s \in Sids, k \in Attempts :
    state[s] \in {"aborted", "failed_permanent"} /\ pipe[s][k] # "none"
      ~> pipe[s][k] = "done"

-----------------------------------------------------------------------------
(* What comments of session.go say of the program and the code does not    *)
(* keep.                                                                   *)

(* session.go:599 "Abort cancels the pipeline and forgets the session      *)
(* immediately": a session no request can find receives nothing.           *)
ForgottenIsStopped ==
  \A s \in Sids : state[s] = "receiving" =>
    s \in byID \/ \E r \in Reqs : proc[r].pc = "insert" /\ proc[r].s = s

(* session.go:318 "the re-fill CRC check catches a changed file": no       *)
(* storage keeps a file whose chunks differ from the previous attempt's.   *)
ChangedNeverStored ==
  \A s \in Sids, k \in Attempts :
    pipe[s][k] = "finish" /\ res[s][k] = "stored" =>
      \A i \in Chunks : prev[s][i] # Null => got[s][k][i] = prev[s][i]

(* session.go:299 Init "returns the live session for the same (user, path, *)
(* size)": there is only one.                                              *)
OneLiveSession ==
  \A s, t \in byID : state[s] = "receiving" /\ state[t] = "receiving" => s = t

(* session.go:537 "Complete waits for the pipeline outcome": it does not   *)
(* answer while the session is receiving with no chunk missing.            *)
CompleteHasOutcome ==
  [][\A r \in Reqs : proc[r].pc = "verdict" /\ proc'[r].pc # "verdict" =>
       state[proc[r].s] # "receiving"]_vars
=============================================================================
