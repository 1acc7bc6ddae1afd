--------------------------- MODULE SessionsProofs ---------------------------
(***************************************************************************)
(* Proofs about the upload sessions: the inductive invariant of Sessions,  *)
(* that every action keeps it, and the properties that follow from it.     *)
(*                                                                         *)
(* Nothing is needed of what the expiry loop does next: its local state is *)
(* a chain of sessions that is followed for as long as it is, and the      *)
(* invariant speaks of the requests' local states only.                    *)
(***************************************************************************)
EXTENDS Sessions, TLAPS

(* The types of what TypeOK leaves out.                                    *)
Types ==
  /\ TypeOK
  /\ DOMAIN hashes = Sids
  /\ res \in [Sids -> [Attempts -> Results \union {Null}]]
  /\ harvest \in [Sids -> [Attempts -> [Chunks -> Files \union {Null}]]]
  /\ known \in [Clients -> SUBSET Sids]
  /\ DOMAIN proc = Procs

(* What a request carries from one critical section to the next.           *)
Carries(q) ==
  /\ q.pc \in {"create", "insert"} => q.c \in Clients
  /\ q.pc \in {"insert", "terminate", "remove", "chunk", "write", "changed", "await",
               "report", "complete", "wait", "verdict"} => q.s \in Sids
  /\ q.pc \in {"terminate", "remove"} =>
       q.then = Idle \/ (q.then.pc = "create" /\ q.then.c \in Clients)
  /\ q.pc \in {"chunk", "write"} => q.idx \in Chunks /\ q.body \in Files
  /\ q.pc = "write" => q.was \in Files \union {Null}
  /\ q.pc \in {"write", "await", "wait"} => q.k \in Attempts
  /\ q.pc = "report" => q.judged \in Attempts \union {Null}

RequestsCarry == \A r \in Reqs : Carries(proc[r])

(* One attempt at a time: a pipeline that has no verdict yet is that of    *)
(* the attempt, of the window and of the done channel the session holds.   *)
RunningIsCurrent ==
  \A s \in Sids, k \in Attempts : pipe[s][k] \in Running =>
    /\ k = attempt[s] /\ k = done[s] /\ k = win[s]
    /\ state[s] \in {"receiving", "failed_permanent", "aborted"}

(* An attempt that may start has not run before.                           *)
NextIsUnused ==
  \A s \in Sids :
    /\ state[s] = "new" => attempt[s] = 0 /\ pipe[s][0] = "none"
    /\ state[s] = "failed_retriable" => attempt[s] # 0 /\ pipe[s][attempt[s]] = "none"
    /\ \A k \in Attempts : k > attempt[s] => pipe[s][k] = "none"

(* put returned one of the results, and "retriable" within the bound.      *)
ResultKnown ==
  \A s \in Sids, k \in Attempts : pipe[s][k] \in {"harvest", "close", "finish"} =>
    res[s][k] \in Results /\ (res[s][k] = "retriable" => k < MaxAttempt)

(* Only the window of a receiving session's attempt is open.               *)
OpenIsReceiving ==
  \A s \in Sids, k \in Attempts : open[s][k] =>
    state[s] = "receiving" /\ k = attempt[s] /\ pipe[s][k] \in {"put", "harvest", "close"}

(* A success is final: only a changed chunk takes it back.                 *)
SuccessStays ==
  \A s \in Sids, k \in Attempts :
    pipe[s][k] \in {"signal", "done"} /\ res[s][k] \in Success =>
      state[s] = "completed" \/ (state[s] = "failed_permanent" /\ err[s] = "changed")

(* A straggler with a verdict has the verdict of a pipeline that is done.  *)
JudgedIsDone ==
  \A r \in Reqs : proc[r].pc = "report" /\ proc[r].judged # Null =>
    pipe[proc[r].s][proc[r].judged] = "done"

(* Nobody has a session before it is created.                              *)
NewIsUnknown ==
  \A s \in Sids : state[s] = "new" =>
    /\ \A c \in Clients : s \notin known[c]
    /\ \A r \in Reqs : proc[r].pc \in {"insert", "chunk", "write"} => proc[r].s # s

(* The first window of a session that is not created yet is empty.         *)
NewIsEmpty ==
  \A s \in Sids : state[s] = "new" => \A i \in Chunks : got[s][0][i] = Null

(* While the first attempt receives, everybody who can send a chunk to it  *)
(* uploads file f, the file of the client that created the session.        *)
SharedBy(s, f) ==
  /\ \E c \in Clients : hashes[s] = Hash[c] /\ File[c] = f
  /\ \A c \in Clients : s \in known[c] => File[c] = f
  /\ \A r \in Reqs : proc[r].pc = "insert" /\ proc[r].s = s => File[proc[r].c] = f
  /\ \A r \in Reqs : proc[r].pc \in {"chunk", "write"} /\ proc[r].s = s => proc[r].body = f
  /\ \A i \in Chunks : got[s][0][i] \in {Null, f}

FirstIsShared ==
  \A s \in Sids : state[s] = "receiving" /\ attempt[s] = 0 =>
    \E f \in Files : SharedBy(s, f)

Lifecycle ==
  /\ RunningIsCurrent /\ NextIsUnused /\ ResultKnown /\ OpenIsReceiving
  /\ ReceivingHasPipeline /\ FailureHasCause /\ SuccessStays

IInv ==
  /\ Types /\ RequestsCarry /\ Lifecycle /\ JudgedIsDone
  /\ NewIsUnknown /\ NewIsEmpty /\ FirstIsShared /\ NoMixedUpload

-----------------------------------------------------------------------------
(* What the invariant says of attempts depends on no request and no map.   *)
LEMMA LifecycleUnchanged ==
  ASSUME Lifecycle, UNCHANGED <<sessVars, pipeVars, open>>
  PROVE  Lifecycle'
<1>1. RunningIsCurrent' /\ NextIsUnused'
  BY Zenon DEF Lifecycle, RunningIsCurrent, NextIsUnused, sessVars, pipeVars
<1>2. ResultKnown' /\ OpenIsReceiving'
  BY Zenon DEF Lifecycle, ResultKnown, OpenIsReceiving, sessVars, pipeVars
<1>3. ReceivingHasPipeline' /\ FailureHasCause' /\ SuccessStays'
  BY Zenon DEF Lifecycle, ReceivingHasPipeline, FailureHasCause, SuccessStays, sessVars, pipeVars
<1> QED
  BY <1>1, <1>2, <1>3, Zenon DEF Lifecycle

(* The initial states satisfy the invariant.                               *)
LEMMA InitIInv == Init => IInv
<1> SUFFICES ASSUME Init PROVE IInv
  BY Zenon
<1> USE SessionsAssumption
<1>1. Types
  BY DEF Init, Types, TypeOK, PerAttempt, NoChunks, Attempts, Steps, States, Results
<1>2. RequestsCarry
  BY Zenon DEF Init, RequestsCarry, Carries, Idle, Procs
<1>3. Lifecycle
  <2>1. RunningIsCurrent /\ ResultKnown /\ OpenIsReceiving /\ SuccessStays
    BY Zenon DEF Init, RunningIsCurrent, ResultKnown, OpenIsReceiving, SuccessStays, PerAttempt, Running
  <2>2. NextIsUnused
    BY DEF Init, NextIsUnused, PerAttempt, Attempts
  <2>3. ReceivingHasPipeline /\ FailureHasCause
    BY Zenon DEF Init, ReceivingHasPipeline, FailureHasCause
  <2> QED
    BY <2>1, <2>2, <2>3, Zenon DEF Lifecycle
<1>4. JudgedIsDone /\ NewIsUnknown /\ FirstIsShared
  BY Zenon DEF Init, JudgedIsDone, NewIsUnknown, FirstIsShared, Idle, Procs
<1>5. NewIsEmpty /\ NoMixedUpload
  BY DEF Init, NewIsEmpty, NoMixedUpload, PerAttempt, NoChunks, Attempts
<1> QED
  BY <1>1, <1>2, <1>3, <1>4, <1>5, Zenon DEF IInv

(* A step that only moves one process on, from one critical section to the *)
(* next, keeps the invariant when what a request then carries fits.        *)
LEMMA LocalStep ==
  ASSUME IInv,
         NEW r \in Procs, NEW local, Goto(r, local),
         UNCHANGED <<sessVars, winVars, pipeVars, known>>,
         byID' \subseteq Sids, byKey' \in Sids \union {Null},
         r \in Reqs =>
           /\ Carries(local)
           /\ local.pc = "report" /\ local.judged # Null =>
                pipe[local.s][local.judged] = "done"
           /\ local.pc \in {"insert", "chunk", "write"} => state[local.s] # "new"
           /\ local.pc # "insert"
           /\ local.pc \in {"chunk", "write"} =>
                \A f \in Files : SharedBy(local.s, f) => local.body = f
  PROVE  IInv'
<1> USE SessionsAssumption
<1>p. /\ DOMAIN proc = Procs /\ Reqs \subseteq Procs
      /\ \A q \in Procs : proc'[q] = IF q = r THEN local ELSE proc[q]
  BY Zenon DEF IInv, Types, Goto, Procs
<1>1. Types'
  BY Zenon DEF IInv, Types, TypeOK, Goto, sessVars, winVars, pipeVars
<1>2. RequestsCarry'
  BY <1>p DEF IInv, RequestsCarry, Carries
<1>3. Lifecycle'
  BY LifecycleUnchanged, Zenon DEF IInv, winVars
<1>4. JudgedIsDone'
  BY <1>p, Zenon DEF IInv, JudgedIsDone, pipeVars
<1>5. NewIsUnknown'
  BY <1>p, Zenon DEF IInv, NewIsUnknown, sessVars
<1>6. FirstIsShared'
  <2> SUFFICES ASSUME NEW s \in Sids, state[s] = "receiving", attempt[s] = 0
               PROVE  \E f \in Files : SharedBy(s, f)'
    BY Zenon DEF FirstIsShared, sessVars
  <2>1. PICK f \in Files : SharedBy(s, f)
    BY Zenon DEF IInv, FirstIsShared
  <2>2. SharedBy(s, f)'
    BY <1>p, <2>1 DEF SharedBy, sessVars, winVars
  <2> QED
    BY <2>2, Zenon
<1>7. NewIsEmpty' /\ NoMixedUpload'
  BY DEF IInv, NewIsEmpty, NoMixedUpload, sessVars, winVars
<1> QED
  BY <1>1, <1>2, <1>3, <1>4, <1>5, <1>6, <1>7, Zenon DEF IInv

(* A request that ends by telling its client of a session keeps the        *)
(* invariant when the client uploads what the session's others upload.     *)
LEMMA LearnStep ==
  ASSUME IInv, NEW r \in Reqs, NEW c \in Clients, NEW s \in Sids,
         known' = [known EXCEPT ![c] = @ \union {s}], Return(r),
         UNCHANGED <<sessVars, winVars, pipeVars>>,
         byID' \subseteq Sids, byKey' \in Sids \union {Null},
         state[s] # "new",
         state[s] = "receiving" /\ attempt[s] = 0 =>
           \A f \in Files : SharedBy(s, f) => File[c] = f
  PROVE  IInv'
<1> USE SessionsAssumption
<1>p. /\ DOMAIN proc' = Procs /\ Reqs \subseteq Procs
      /\ \A q \in Procs : proc'[q] = IF q = r THEN Idle ELSE proc[q]
      /\ Idle.pc = "idle"
  BY Zenon DEF IInv, Types, Return, Goto, Procs, Idle
<1>k. /\ known \in [Clients -> SUBSET Sids]
      /\ \A d \in Clients : known'[d] = IF d = c THEN known[d] \union {s} ELSE known[d]
  BY Zenon DEF IInv, Types
<1>1. Types'
  BY <1>p DEF IInv, Types, TypeOK, sessVars, winVars, pipeVars
<1>2. RequestsCarry'
  BY <1>p DEF IInv, RequestsCarry, Carries, Idle
<1>3. Lifecycle'
  BY LifecycleUnchanged, Zenon DEF IInv, winVars
<1>4. JudgedIsDone'
  BY <1>p, Zenon DEF IInv, JudgedIsDone, pipeVars
<1>5. NewIsUnknown'
  BY <1>p, <1>k DEF IInv, NewIsUnknown, sessVars
<1>6. FirstIsShared'
  <2> SUFFICES ASSUME NEW x \in Sids, state[x] = "receiving", attempt[x] = 0
               PROVE  \E f \in Files : SharedBy(x, f)'
    BY Zenon DEF FirstIsShared, sessVars
  <2>1. PICK f \in Files : SharedBy(x, f)
    BY Zenon DEF IInv, FirstIsShared
  <2>2. \A d \in Clients : x \in known'[d] => File[d] = f
    <3>1. \A d \in Clients : x \in known[d] => File[d] = f
      BY <2>1, Zenon DEF SharedBy
    <3>2. x = s => File[c] = f
      BY <2>1, Zenon
    <3> SUFFICES ASSUME NEW d \in Clients, x \in known'[d] PROVE File[d] = f
      BY Zenon
    <3>3. CASE d = c /\ x = s
      BY <3>2, <3>3, Zenon
    <3>4. CASE x \in known[d]
      BY <3>1, <3>4, Zenon
    <3> QED
      BY <1>k, <3>3, <3>4, Zenon
  <2>3. \A q \in Reqs : proc'[q] = proc[q] \/ proc'[q].pc = "idle"
    BY <1>p, Zenon
  <2>4. SharedBy(x, f)'
    BY <2>1, <2>2, <2>3 DEF SharedBy, sessVars, winVars
  <2> QED
    BY <2>4, Zenon
<1>7. NewIsEmpty' /\ NoMixedUpload'
  BY DEF IInv, NewIsEmpty, NoMixedUpload, sessVars, winVars
<1> QED
  BY <1>1, <1>2, <1>3, <1>4, <1>5, <1>6, <1>7, Zenon DEF IInv

-----------------------------------------------------------------------------
(* The requests that look something up and carry it on.                    *)
LEMMA LookupSteps ==
  ASSUME IInv, NEW r \in Reqs, Request(r)
  PROVE  IInv'
<1> USE SessionsAssumption DEF Send
<1>t. /\ byID \subseteq Sids /\ byKey \in Sids \union {Null} /\ r \in Procs
      /\ DOMAIN proc = Procs
  BY Zenon DEF IInv, Types, TypeOK, Procs
<1>1. ASSUME NEW c \in Clients, InitLookup(r, c) PROVE IInv'
  <2>1. CASE byKey = Null /\ Goto(r, [pc |-> "create", c |-> c]) /\ UNCHANGED known
    BY <1>1, <1>t, <2>1, LocalStep, Zenon DEF InitLookup, Carries, mapVars
  <2>2. CASE /\ byKey # Null /\ UNCHANGED known
             /\ Goto(r, [pc |-> "terminate", s |-> byKey, then |-> [pc |-> "create", c |-> c]])
    BY <1>1, <1>t, <2>2, LocalStep, Zenon DEF InitLookup, Carries, mapVars
  <2>3. CASE /\ byKey # Null
             /\ \/ state[byKey] = "failed_retriable"
                \/ state[byKey] = "receiving" /\ hashesQualifyResume(hashes[byKey], Hash[c])
             /\ known' = [known EXCEPT ![c] = @ \union {byKey}]
             /\ Return(r)
    <3>1. state[byKey] = "receiving" /\ attempt[byKey] = 0 =>
            \A f \in Files : SharedBy(byKey, f) => File[c] = f
      BY <2>3, HashAssumption, Zenon DEF hashesQualifyResume, SharedBy
    <3>2. UNCHANGED <<mapVars, sessVars, winVars, pipeVars>> /\ byKey \in Sids
      BY <1>1, <1>t, <2>3, Zenon DEF InitLookup
    <3> QED
      BY <1>t, <2>3, <3>1, <3>2, LearnStep, Zenon DEF mapVars
  <2> QED
    BY <1>1, <2>1, <2>2, <2>3, Zenon DEF InitLookup
<1>2. ASSUME NEW c \in Clients, NEW s \in Sids, Abort(r, c, s) PROVE IInv'
  BY <1>2, <1>t, LocalStep, Zenon DEF Abort, Carries, mapVars
<1>3. ASSUME NEW c \in Clients, NEW s \in Sids, CompleteGet(r, c, s) PROVE IInv'
  BY <1>3, <1>t, LocalStep, Zenon DEF CompleteGet, Carries, mapVars
<1>4. ASSUME NEW c \in Clients, NEW s \in Sids, NEW idx \in Chunks, ChunkGet(r, c, s, idx)
      PROVE  IInv'
  <2>1. state[s] # "new"
    BY <1>4, Zenon DEF ChunkGet, IInv, NewIsUnknown
  <2>2. \A f \in Files : SharedBy(s, f) => File[c] = f
    BY <1>4, Zenon DEF ChunkGet, SharedBy
  <2> QED
    BY <1>4, <1>t, <2>1, <2>2, LocalStep, Zenon DEF ChunkGet, Carries, mapVars, Files
<1> QED
  BY <1>1, <1>2, <1>3, <1>4, Zenon DEF Request

(* The requests that wait, are refused, or end.                            *)
LEMMA WaitingSteps ==
  ASSUME IInv, NEW r \in Reqs,
         \/ InitFails(r) \/ ChunkRefused(r) \/ ChunkReport(r) \/ CompleteLoop(r)
         \/ CompleteWake(r) \/ CompleteCancelled(r) \/ CompleteVerdict(r)
         \/ \E timeout \in BOOLEAN : ChunkAwait(r, timeout)
  PROVE  IInv'
<1> USE SessionsAssumption DEF Return
<1>t. /\ byID \subseteq Sids /\ byKey \in Sids \union {Null} /\ r \in Procs
      /\ Carries(proc[r]) /\ Carries(Idle) /\ Idle.pc = "idle"
  BY Zenon DEF IInv, Types, TypeOK, Procs, RequestsCarry, Carries, Idle
<1>1. CASE InitFails(r) \/ ChunkReport(r) \/ CompleteCancelled(r)
  BY <1>1, <1>t, LocalStep, Zenon DEF InitFails, ChunkReport, CompleteCancelled, mapVars
<1>2. CASE ChunkRefused(r)
  <2>1. done[proc[r].s] \in Attempts
    BY <1>2, <1>t, Zenon DEF ChunkRefused, Carries, IInv, Types, TypeOK
  <2> QED
    BY <1>2, <1>t, <2>1, LocalStep, Zenon DEF ChunkRefused, Carries, mapVars
<1>3. CASE CompleteLoop(r)
  <2>1. done[proc[r].s] \in Attempts
    BY <1>3, <1>t, Zenon DEF CompleteLoop, Carries, IInv, Types, TypeOK
  <2> QED
    BY <1>3, <1>t, <2>1, LocalStep, Zenon DEF CompleteLoop, Carries, mapVars
<1>4. CASE CompleteWake(r)
  BY <1>4, <1>t, LocalStep, Zenon DEF CompleteWake, Carries, mapVars
<1>5. CASE CompleteVerdict(r)
  BY <1>5, <1>t, LocalStep, Zenon DEF CompleteVerdict, Carries, mapVars
<1>6. ASSUME NEW timeout \in BOOLEAN, ChunkAwait(r, timeout) PROVE IInv'
  BY <1>6, <1>t, LocalStep, Zenon DEF ChunkAwait, Carries, mapVars
<1> QED
  BY <1>1, <1>2, <1>3, <1>4, <1>5, <1>6, Zenon

-----------------------------------------------------------------------------
(* What startAttemptLocked makes of a session: no pipeline of the session  *)
(* is running, the attempt's pipeline has not run yet.                     *)
LEMMA StartStep ==
  ASSUME IInv, NEW s \in Sids, state[s] \in {"new", "failed_retriable"},
         startAttemptLocked(s), UNCHANGED attempt
  PROVE  /\ Lifecycle'
         /\ \A k \in Attempts : pipe[s][k] \notin Running
         /\ \A x \in Sids, k \in Attempts : pipe[x][k] = "done" => pipe'[x][k] = "done"
         /\ NewIsEmpty' /\ NoMixedUpload'
         /\ \A x \in Sids : state'[x] = IF x = s THEN "receiving" ELSE state[x]
<1> USE SessionsAssumption
<1>0. PICK k : k = attempt[s]
  BY Zenon
<1>t. /\ k \in Attempts /\ pipe[s][k] = "none" /\ pipe \in [Sids -> [Attempts -> Steps]]
      /\ state \in [Sids -> States] /\ win \in [Sids -> Attempts \union {Null}]
      /\ done \in [Sids -> Attempts] /\ attempt \in [Sids -> Attempts]
      /\ open \in [Sids -> [Attempts -> BOOLEAN]] /\ DOMAIN err = Sids
  BY <1>0, Zenon DEF IInv, Types, TypeOK, Lifecycle, NextIsUnused
<1>r. \A j \in Attempts : pipe[s][j] \notin Running
  BY Zenon DEF IInv, Lifecycle, RunningIsCurrent
<1>s. /\ \A x \in Sids : /\ state'[x] = IF x = s THEN "receiving" ELSE state[x]
                         /\ win'[x] = IF x = s THEN k ELSE win[x]
                         /\ done'[x] = IF x = s THEN k ELSE done[x]
                         /\ err'[x] = IF x = s THEN Null ELSE err[x]
      /\ \A x \in Sids, j \in Attempts :
            /\ open'[x][j] <=> (x = s /\ j = k) \/ open[x][j]
            /\ pipe'[x][j] = IF x = s /\ j = k THEN "put" ELSE pipe[x][j]
      /\ attempt' = attempt /\ got' = got /\ res' = res
  BY <1>0, <1>t, Zenon DEF startAttemptLocked
<1>1. RunningIsCurrent'
  BY <1>0, <1>t, <1>r, <1>s DEF IInv, Lifecycle, RunningIsCurrent
<1>2. NextIsUnused'
  <2> SUFFICES ASSUME NEW x \in Sids
               PROVE  /\ state'[x] = "new" => attempt[x] = 0 /\ pipe'[x][0] = "none"
                      /\ state'[x] = "failed_retriable" =>
                           attempt[x] # 0 /\ pipe'[x][attempt[x]] = "none"
                      /\ \A j \in Attempts : j > attempt[x] => pipe'[x][j] = "none"
    BY <1>s DEF NextIsUnused
  <2>1. 0 \in Attempts /\ attempt[x] \in Attempts
    BY <1>t DEF Attempts
  <2>2. \A j \in Attempts : j > attempt[x] => pipe[x][j] = "none"
    BY Zenon DEF IInv, Lifecycle, NextIsUnused
  <2>3. \A j \in Attempts : j > attempt[x] => pipe'[x][j] = "none"
    BY <1>0, <1>s, <2>2 DEF Attempts
  <2> QED
    BY <1>s, <2>1, <2>3 DEF IInv, Lifecycle, NextIsUnused
<1>3. ResultKnown'
  BY <1>t, <1>s DEF IInv, Lifecycle, ResultKnown
<1>4. OpenIsReceiving'
  BY <1>0, <1>t, <1>s DEF IInv, Lifecycle, OpenIsReceiving
<1>5. ReceivingHasPipeline'
  <2> SUFFICES ASSUME NEW x \in Sids, state'[x] = "receiving"
               PROVE  win'[x] # Null /\ win'[x] = done'[x] /\ pipe'[x][win'[x]] \in Running
    BY Zenon DEF ReceivingHasPipeline
  <2>1. CASE x = s
    BY <1>t, <1>s, <2>1 DEF Running
  <2>2. CASE x # s
    BY <1>t, <1>s, <2>2 DEF IInv, Lifecycle, ReceivingHasPipeline
  <2> QED
    BY <2>1, <2>2, Zenon
<1>6. FailureHasCause'
  BY <1>s, Zenon DEF IInv, Lifecycle, FailureHasCause
<1>7. SuccessStays'
  <2> SUFFICES ASSUME NEW x \in Sids, NEW j \in Attempts,
                      pipe'[x][j] \in {"signal", "done"}, res[x][j] \in Success
               PROVE  \/ state'[x] = "completed"
                      \/ state'[x] = "failed_permanent" /\ err'[x] = "changed"
    BY <1>s, Zenon DEF SuccessStays
  <2>1. pipe[x][j] \in {"signal", "done"}
    BY <1>s, Zenon
  <2>2. \/ state[x] = "completed"
        \/ state[x] = "failed_permanent" /\ err[x] = "changed"
    BY <2>1, Zenon DEF IInv, Lifecycle, SuccessStays
  <2> QED
    BY <1>s, <2>2, Zenon
<1>8. \A x \in Sids, j \in Attempts : pipe[x][j] = "done" => pipe'[x][j] = "done"
  BY <1>t, <1>s, Zenon
<1>9. NewIsEmpty' /\ NoMixedUpload'
  BY <1>s DEF IInv, NewIsEmpty, NoMixedUpload
<1> QED
  BY <1>1, <1>2, <1>3, <1>4, <1>5, <1>6, <1>7, <1>8, <1>9, <1>r, <1>s, Zenon DEF Lifecycle

(* Init creates a session: nobody had it, so that its file is the          *)
(* creator's.                                                              *)
LEMMA InitCreateStep ==
  ASSUME IInv, NEW r \in Reqs, NEW s \in Sids, InitCreate(r, s)
  PROVE  IInv'
<1> USE SessionsAssumption
<1>0. PICK c : c = proc[r].c
  BY Zenon
<1>c. c \in Clients /\ File[c] \in Files
  BY <1>0, Zenon DEF IInv, RequestsCarry, Carries, InitCreate, Files
<1>n. state[s] = "new" /\ attempt[s] = 0 /\ UNCHANGED <<mapVars, attempt, prev, known, got, pos, res, harvest>>
  BY Zenon DEF InitCreate, IInv, Lifecycle, NextIsUnused, startAttemptLocked
<1>p. /\ DOMAIN proc' = Procs /\ Reqs \subseteq Procs
      /\ \A q \in Procs : proc'[q] = IF q = r THEN [pc |-> "insert", c |-> c, s |-> s] ELSE proc[q]
  BY <1>0, Zenon DEF IInv, Types, InitCreate, Goto, Procs
<1>l. /\ Lifecycle' /\ NewIsEmpty' /\ NoMixedUpload'
      /\ \A x \in Sids, k \in Attempts : pipe[x][k] = "done" => pipe'[x][k] = "done"
      /\ \A x \in Sids : state'[x] = IF x = s THEN "receiving" ELSE state[x]
  BY <1>n, StartStep, Zenon DEF InitCreate
<1>1. Types'
  <2>1. startAttemptLocked(s) /\ hashes' = [hashes EXCEPT ![s] = Hash[c]]
    BY <1>0, Zenon DEF InitCreate
  <2> QED
    BY <1>n, <1>p, <2>1, Zenon
       DEF IInv, Types, TypeOK, startAttemptLocked, mapVars, States, Steps
<1>2. RequestsCarry'
  BY <1>p, <1>c DEF IInv, RequestsCarry, Carries
<1>4. JudgedIsDone'
  BY <1>p, <1>l DEF IInv, JudgedIsDone, RequestsCarry, Carries
<1>5. NewIsUnknown'
  BY <1>p, <1>l, <1>n DEF IInv, NewIsUnknown
<1>6. FirstIsShared'
  <2> SUFFICES ASSUME NEW x \in Sids, state'[x] = "receiving", attempt[x] = 0
               PROVE  \E f \in Files : SharedBy(x, f)'
    BY <1>n, Zenon DEF FirstIsShared
  <2>h. \A y \in Sids : hashes'[y] = IF y = s THEN Hash[c] ELSE hashes[y]
    BY <1>0, Zenon DEF IInv, Types, InitCreate
  <2>1. CASE x = s
    <3>1. \A i \in Chunks : got[s][0][i] \in {Null, File[c]}
      BY <1>n, Zenon DEF IInv, NewIsEmpty
    <3>2. SharedBy(s, File[c])'
      BY <1>c, <1>n, <1>p, <2>h, <3>1 DEF SharedBy, IInv, NewIsUnknown
    <3> QED
      BY <2>1, <3>2, <1>c, Zenon
  <2>2. CASE x # s
    <3>1. PICK f \in Files : SharedBy(x, f)
      BY <1>l, <2>2, Zenon DEF IInv, FirstIsShared
    <3>2. SharedBy(x, f)'
      BY <1>n, <1>p, <2>2, <2>h, <3>1 DEF SharedBy
    <3> QED
      BY <3>2, Zenon
  <2> QED
    BY <2>1, <2>2, Zenon
<1> QED
  BY <1>1, <1>2, <1>l, <1>4, <1>5, <1>6, Zenon DEF IInv

(* Init makes the session it created known to everybody.                   *)
LEMMA InitInsertStep ==
  ASSUME IInv, NEW r \in Reqs, InitInsert(r)
  PROVE  IInv'
<1>0. PICK s, c : s = proc[r].s /\ c = proc[r].c
  BY Zenon
<1>1. s \in Sids /\ c \in Clients /\ state[s] # "new"
  BY <1>0, Zenon DEF InitInsert, IInv, RequestsCarry, Carries, NewIsUnknown
<1>2. \A f \in Files : SharedBy(s, f) => File[c] = f
  BY <1>0, Zenon DEF InitInsert, SharedBy
<1>3. byID' \subseteq Sids /\ byKey' \in Sids \union {Null}
  BY <1>0, <1>1, Zenon DEF InitInsert, IInv, Types, TypeOK
<1>4. /\ known' = [known EXCEPT ![c] = @ \union {s}] /\ Return(r)
      /\ UNCHANGED <<sessVars, winVars, pipeVars>>
  BY <1>0, Zenon DEF InitInsert
<1> QED
  BY <1>1, <1>2, <1>3, <1>4, LearnStep, Zenon

(* A chunk enters the window of a receiving session, or begins the next    *)
(* attempt of a failed one.                                                *)
LEMMA ChunkEnterStep ==
  ASSUME IInv, NEW r \in Reqs, ChunkEnter(r)
  PROVE  IInv'
<1> USE SessionsAssumption
<1>0. PICK s, idx, body, was : /\ s = proc[r].s /\ idx = proc[r].idx /\ body = proc[r].body
                               /\ was = prev[proc[r].s][proc[r].idx]
  BY Zenon
<1>t. /\ byID \subseteq Sids /\ byKey \in Sids \union {Null} /\ r \in Procs
      /\ Carries(Idle) /\ Idle.pc = "idle"
      /\ s \in Sids /\ idx \in Chunks /\ body \in Files /\ was \in Files \union {Null}
      /\ attempt[s] \in Attempts /\ state[s] # "new" /\ proc[r].pc = "chunk"
      /\ UNCHANGED <<mapVars, known>>
  BY <1>0, SMTT(60) DEF ChunkEnter, IInv, Types, TypeOK, Procs, RequestsCarry, Carries, Idle, NewIsUnknown
<1>b. \A f \in Files : SharedBy(s, f) => body = f
  BY <1>0, <1>t, Zenon DEF SharedBy
<1> DEFINE local(k) == [pc |-> "write", s |-> s, idx |-> idx, body |-> body, k |-> k, was |-> was]
<1>1. CASE /\ state[s] = "receiving" /\ Writing(r, win[s])
           /\ UNCHANGED <<sessVars, winVars, pipeVars>>
  <2>1. PICK k : k = win[s]
    BY Zenon
  <2>2. k \in Attempts
    BY <1>1, <1>t, <2>1, Zenon DEF IInv, Types, TypeOK, Lifecycle, ReceivingHasPipeline
  <2>3. Goto(r, local(k)) /\ Carries(local(k))
    BY <1>0, <1>1, <1>t, <2>1, <2>2, Zenon DEF Writing, Carries
  <2> QED
    BY <1>1, <1>t, <1>b, <2>3, LocalStep, Zenon DEF mapVars
<1>2. CASE Return(r) /\ UNCHANGED <<sessVars, winVars, pipeVars>>
  BY <1>2, <1>t, LocalStep, Zenon DEF Return, mapVars
<1>3. CASE /\ state[s] = "failed_retriable" /\ startAttemptLocked(s) /\ Writing(r, attempt[s])
           /\ UNCHANGED <<attempt, prev, hashes>>
  <2>1. PICK k : k = attempt[s]
    BY Zenon
  <2>2. Goto(r, local(k)) /\ Carries(local(k)) /\ local(k).pc = "write" /\ k # 0
    BY <1>0, <1>3, <1>t, <2>1, Zenon DEF Writing, Carries, IInv, Lifecycle, NextIsUnused
  <2>p. /\ DOMAIN proc' = Procs /\ Reqs \subseteq Procs
        /\ \A q \in Procs : proc'[q] = IF q = r THEN local(k) ELSE proc[q]
    BY <2>2, Zenon DEF IInv, Types, Goto, Procs
  <2>l. /\ Lifecycle' /\ NewIsEmpty' /\ NoMixedUpload'
        /\ \A x \in Sids, j \in Attempts : pipe[x][j] = "done" => pipe'[x][j] = "done"
        /\ \A x \in Sids : state'[x] = IF x = s THEN "receiving" ELSE state[x]
    BY <1>3, <1>t, StartStep, Zenon
  <2>3. Types'
    BY <1>3, <1>t, <2>p, Zenon
       DEF IInv, Types, TypeOK, startAttemptLocked, mapVars, States, Steps
  <2>4. RequestsCarry'
    BY <2>2, <2>p, Zenon DEF IInv, RequestsCarry
  <2>5. JudgedIsDone'
    BY <2>2, <2>p, <2>l DEF IInv, JudgedIsDone, RequestsCarry, Carries
  <2>6. NewIsUnknown'
    BY <1>t, <2>2, <2>p, <2>l DEF IInv, NewIsUnknown
  <2>7. FirstIsShared'
    <3> SUFFICES ASSUME NEW x \in Sids, state'[x] = "receiving", attempt[x] = 0
                 PROVE  \E f \in Files : SharedBy(x, f)'
      BY <1>3, Zenon DEF FirstIsShared
    <3>1. x # s /\ state[x] = "receiving"
      BY <2>1, <2>2, <2>l, Zenon
    <3>2. PICK f \in Files : SharedBy(x, f)
      BY <3>1, Zenon DEF IInv, FirstIsShared
    <3>3. \A q \in Reqs : proc'[q] = proc[q] \/ (proc'[q].pc = "write" /\ proc'[q].s = s)
      BY <2>p, SMTT(60)
    <3>4. SharedBy(x, f)'
      BY <1>3, <1>t, <3>1, <3>2, <3>3, Zenon DEF SharedBy, startAttemptLocked
    <3> QED
      BY <3>4, Zenon
  <2> QED
    BY <2>l, <2>3, <2>4, <2>5, <2>6, <2>7, Zenon DEF IInv
<1> QED
  BY <1>0, <1>1, <1>2, <1>3, Zenon DEF ChunkEnter, CanRefill

(* A chunk is accepted: into the first window only what all others upload. *)
LEMMA ChunkWriteStep ==
  ASSUME IInv, NEW r \in Reqs, ChunkWrite(r)
  PROVE  IInv'
<1> USE SessionsAssumption
<1>0. PICK s, k, idx, body : /\ s = proc[r].s /\ k = proc[r].k
                             /\ idx = proc[r].idx /\ body = proc[r].body
  BY Zenon
<1>t. /\ s \in Sids /\ k \in Attempts /\ idx \in Chunks /\ body \in Files
      /\ got \in [Sids -> [Attempts -> [Chunks -> Files \union {Null}]]]
      /\ open[s][k] /\ UNCHANGED <<mapVars, sessVars, open, pos, pipeVars, known>>
  BY <1>0, Zenon DEF ChunkWrite, IInv, Types, TypeOK, RequestsCarry, Carries
<1>o. state[s] = "receiving" /\ k = attempt[s]
  BY <1>t, Zenon DEF IInv, Lifecycle, OpenIsReceiving
<1>1. PICK crc : crc = IF got[s][k][idx] = Null THEN body ELSE got[s][k][idx]
  BY Zenon
<1>g. /\ crc \in Files
      /\ got' = [got EXCEPT ![s][k][idx] = crc]
      /\ \A x \in Sids, j \in Attempts, i \in Chunks :
            got'[x][j][i] = IF x = s /\ j = k /\ i = idx THEN crc ELSE got[x][j][i]
  <2>1. crc \in Files
    BY <1>1, <1>t
  <2>2. got' = [got EXCEPT ![s][k][idx] = crc]
    BY <1>0, <1>1, Zenon DEF ChunkWrite
  <2> QED
    BY <1>t, <2>1, <2>2
<1>2. PICK local \in {[pc |-> "changed", s |-> s], Idle} : Goto(r, local)
  BY <1>0, Zenon DEF ChunkWrite, Return
<1>p. /\ DOMAIN proc' = Procs /\ Reqs \subseteq Procs
      /\ \A q \in Procs : proc'[q] = IF q = r THEN local ELSE proc[q]
      /\ local.pc \in {"changed", "idle"} /\ Carries(local)
  BY <1>t, <1>2 DEF IInv, Types, Goto, Procs, Idle, Carries
<1>3. Types'
  <2>1. got' \in [Sids -> [Attempts -> [Chunks -> Files \union {Null}]]]
    BY <1>t, <1>g
  <2>2. UNCHANGED <<byID, byKey, state, err, attempt, win, done, prev, hashes, open, pos, pipe, res, harvest, known>>
    BY <1>t, Zenon DEF mapVars, sessVars, pipeVars
  <2> QED
    BY <1>p, <2>1, <2>2, Zenon DEF IInv, Types, TypeOK
<1>4. RequestsCarry'
  BY <1>p, Zenon DEF IInv, RequestsCarry
<1>5. Lifecycle'
  BY <1>t, LifecycleUnchanged, Zenon DEF IInv
<1>6. JudgedIsDone'
  BY <1>t, <1>p, Zenon DEF IInv, JudgedIsDone, pipeVars
<1>7. NewIsUnknown' /\ NewIsEmpty'
  <2>1. NewIsUnknown'
    BY <1>t, <1>p, Zenon DEF IInv, NewIsUnknown, sessVars
  <2>2. \A x \in Sids : state[x] = "new" => x # s
    BY <1>o, Zenon
  <2>3. 0 \in Attempts
    BY DEF Attempts
  <2>4. NewIsEmpty'
    BY <1>t, <1>g, <2>2, <2>3, Zenon DEF IInv, NewIsEmpty, sessVars
  <2> QED
    BY <2>1, <2>4, Zenon
<1>8. FirstIsShared' /\ NoMixedUpload'
  <2>0. 0 \in Attempts
    BY DEF Attempts
  <2>1. ASSUME NEW x \in Sids, state[x] = "receiving", attempt[x] = 0, NEW f \in Files,
               SharedBy(x, f)
        PROVE  SharedBy(x, f)'
    <3>1. x = s => crc = f
      <4>1. x = s => body = f
        <5>1. \A q \in Reqs : proc[q].pc \in {"chunk", "write"} /\ proc[q].s = x => proc[q].body = f
          BY <2>1, Zenon DEF SharedBy
        <5>2. proc[r].pc = "write"
          BY Zenon DEF ChunkWrite
        <5> QED
          BY <1>0, <5>1, <5>2, Zenon
      <4>2. got[x][0][idx] \in {Null, f}
        BY <1>t, <2>1, Zenon DEF SharedBy
      <4> QED
        BY <1>1, <1>o, <2>1, <4>1, <4>2, Zenon
    <3>2. \A i \in Chunks : got'[x][0][i] \in {Null, f}
      BY <1>g, <2>0, <2>1, <3>1 DEF SharedBy
    <3>3. \A q \in Reqs : proc'[q] = proc[q] \/ proc'[q].pc \in {"changed", "idle"}
      BY <1>p, Zenon
    <3>4. hashes' = hashes /\ known' = known
      BY <1>t, Zenon DEF sessVars
    <3> QED
      BY <2>1, <3>2, <3>3, <3>4 DEF SharedBy
  <2>2. FirstIsShared'
    <3> SUFFICES ASSUME NEW x \in Sids, state[x] = "receiving", attempt[x] = 0
                 PROVE  \E f \in Files : SharedBy(x, f)'
      BY <1>t, Zenon DEF FirstIsShared, sessVars
    <3> QED
      BY <2>1, Zenon DEF IInv, FirstIsShared
  <2>3. ASSUME NEW x \in Sids, NEW i \in Chunks, NEW j \in Chunks,
               got'[x][0][i] # Null, got'[x][0][j] # Null
        PROVE  got'[x][0][i] = got'[x][0][j]
    <3>1. CASE x = s /\ k = 0
      <4>1. PICK f \in Files : SharedBy(s, f)
        BY <1>o, <1>t, <3>1, Zenon DEF IInv, FirstIsShared
      <4>2. SharedBy(s, f)'
        BY <1>o, <1>t, <2>1, <3>1, <4>1, Zenon
      <4> QED
        BY <2>3, <3>1, <4>2, Zenon DEF SharedBy
    <3>2. CASE ~(x = s /\ k = 0)
      BY <1>g, <2>0, <2>3, <3>2 DEF IInv, NoMixedUpload
    <3> QED
      BY <3>1, <3>2, Zenon
  <2>4. NoMixedUpload'
    BY <2>3, Zenon DEF NoMixedUpload
  <2> QED
    BY <2>2, <2>4, Zenon
<1> QED
  BY <1>3, <1>4, <1>5, <1>6, <1>7, <1>8, Zenon DEF IInv

(* Killing an attempt closes the window of the session, and leaves those   *)
(* of the others alone.  (Outside the sessions there is nothing to close.) *)
LEMMA KillStep ==
  ASSUME IInv, NEW s, killAttemptLocked(s),
         UNCHANGED <<attempt, win, done, got, pipeVars>>,
         NEW st, NEW e,
         \/ UNCHANGED <<state, err>> /\ state[s] # "receiving"
         \/ /\ state' = [state EXCEPT ![s] = st] /\ err' = [err EXCEPT ![s] = e]
            /\ \/ state[s] = "receiving" /\ st = "aborted" /\ e = "terminated"
               \/ st = "failed_permanent" /\ e = "changed"
  PROVE  /\ Lifecycle' /\ NewIsEmpty' /\ NoMixedUpload'
         /\ open' \in [Sids -> [Attempts -> BOOLEAN]]
         /\ state' \in [Sids -> States]
         /\ err' \in [Sids -> {Null, "put", "changed", "terminated"}]
         /\ \A x \in Sids : state'[x] \in {"new", "receiving"} => state'[x] = state[x]
<1> USE SessionsAssumption
<1>t. /\ state \in [Sids -> States] /\ err \in [Sids -> {Null, "put", "changed", "terminated"}]
      /\ win \in [Sids -> Attempts \union {Null}]
      /\ open \in [Sids -> [Attempts -> BOOLEAN]]
  BY Zenon DEF IInv, Types, TypeOK
<1>s. \A x \in Sids :
        \/ state'[x] = state[x] /\ err'[x] = err[x] /\ (x = s => state[x] # "receiving")
        \/ /\ x = s
           /\ \/ state[x] = "receiving" /\ state'[x] = "aborted" /\ err'[x] = "terminated"
              \/ state'[x] = "failed_permanent" /\ err'[x] = "changed"
  BY <1>t, Zenon
<1>o. /\ \A x \in Sids, k \in Attempts : open'[x][k] => open[x][k]
      /\ \A x \in Sids, k \in Attempts : x = s /\ k = win[x] => ~open'[x][k]
  BY <1>t DEF killAttemptLocked
<1>1. /\ open' \in [Sids -> [Attempts -> BOOLEAN]]
      /\ state' \in [Sids -> States]
      /\ err' \in [Sids -> {Null, "put", "changed", "terminated"}]
  BY <1>t, Zenon DEF killAttemptLocked, States
<1>2. RunningIsCurrent'
  BY <1>s, Zenon DEF IInv, Lifecycle, RunningIsCurrent, pipeVars
<1>3. NextIsUnused'
  BY <1>s, Zenon DEF IInv, Lifecycle, NextIsUnused, pipeVars
<1>4. ResultKnown'
  BY Zenon DEF IInv, Lifecycle, ResultKnown, pipeVars
<1>5. OpenIsReceiving'
  <2> SUFFICES ASSUME NEW x \in Sids, NEW k \in Attempts, open'[x][k]
               PROVE  state'[x] = "receiving" /\ k = attempt[x]
                      /\ pipe[x][k] \in {"put", "harvest", "close"}
    BY Zenon DEF OpenIsReceiving, pipeVars
  <2>1. state[x] = "receiving" /\ k = attempt[x] /\ pipe[x][k] \in {"put", "harvest", "close"}
    BY <1>o, Zenon DEF IInv, Lifecycle, OpenIsReceiving
  <2>2. k = win[x]
    BY <2>1, Zenon DEF IInv, Lifecycle, RunningIsCurrent, Running
  <2>3. x # s
    BY <1>o, <2>2, Zenon
  <2> QED
    BY <1>s, <2>1, <2>3, Zenon
<1>6. ReceivingHasPipeline'
  BY <1>s, Zenon DEF IInv, Lifecycle, ReceivingHasPipeline, pipeVars
<1>7. FailureHasCause'
  BY <1>s, Zenon DEF IInv, Lifecycle, FailureHasCause
<1>8. SuccessStays'
  BY <1>s, Zenon DEF IInv, Lifecycle, SuccessStays, pipeVars
<1>9. \A x \in Sids : state'[x] \in {"new", "receiving"} => state'[x] = state[x]
  BY <1>s, Zenon
<1>10. NewIsEmpty' /\ NoMixedUpload'
  BY <1>9 DEF IInv, NewIsEmpty, NoMixedUpload
<1> QED
  BY <1>1, <1>2, <1>3, <1>4, <1>5, <1>6, <1>7, <1>8, <1>9, <1>10, Zenon DEF Lifecycle

(* A process moves on while its session is labelled: what the requests     *)
(* carry still fits.                                                       *)
LEMMA LabelStep ==
  ASSUME IInv, NEW r \in Procs, NEW local, Goto(r, local),
         UNCHANGED <<attempt, hashes, got, pipe, known>>,
         \A x \in Sids : state'[x] \in {"new", "receiving"} => state'[x] = state[x],
         r \in Reqs => /\ Carries(local)
                       /\ local.pc \notin {"insert", "chunk", "write", "report"}
  PROVE  RequestsCarry' /\ JudgedIsDone' /\ NewIsUnknown' /\ FirstIsShared' /\ DOMAIN proc' = Procs
<1>p. /\ DOMAIN proc' = Procs /\ Reqs \subseteq Procs
      /\ \A q \in Procs : proc'[q] = IF q = r THEN local ELSE proc[q]
  BY Zenon DEF IInv, Types, Goto, Procs
<1>1. RequestsCarry'
  BY <1>p, Zenon DEF IInv, RequestsCarry
<1>2. JudgedIsDone'
  BY <1>p, Zenon DEF IInv, JudgedIsDone
<1>3. NewIsUnknown'
  BY <1>p, Zenon DEF IInv, NewIsUnknown
<1>4. FirstIsShared'
  <2> SUFFICES ASSUME NEW x \in Sids, state'[x] = "receiving", attempt[x] = 0
               PROVE  \E f \in Files : SharedBy(x, f)'
    BY Zenon DEF FirstIsShared
  <2>1. PICK f \in Files : SharedBy(x, f)
    BY Zenon DEF IInv, FirstIsShared
  <2>2. \A q \in Reqs : \/ proc'[q] = proc[q]
                        \/ proc'[q].pc \notin {"insert", "chunk", "write", "report"}
    BY <1>p, Zenon
  <2>3. SharedBy(x, f)'
    BY <2>1, <2>2, Zenon DEF SharedBy
  <2> QED
    BY <2>3, Zenon
<1> QED
  BY <1>p, <1>1, <1>2, <1>3, <1>4, Zenon

(* A changed chunk fails its session.                                      *)
LEMMA ChunkChangedStep ==
  ASSUME IInv, NEW r \in Reqs, ChunkChanged(r)
  PROVE  IInv'
<1>0. PICK s : s = proc[r].s
  BY Zenon
<1>1. /\ state' = [state EXCEPT ![s] = "failed_permanent"]
      /\ err' = [err EXCEPT ![s] = "changed"]
      /\ killAttemptLocked(s) /\ Goto(r, Idle) /\ r \in Procs
      /\ UNCHANGED <<mapVars, attempt, win, done, prev, hashes, got, pos, pipeVars, known>>
  BY <1>0, Zenon DEF ChunkChanged, Return, Procs
<1>2. /\ Lifecycle' /\ NewIsEmpty' /\ NoMixedUpload'
      /\ open' \in [Sids -> [Attempts -> BOOLEAN]]
      /\ state' \in [Sids -> States]
      /\ err' \in [Sids -> {Null, "put", "changed", "terminated"}]
      /\ \A x \in Sids : state'[x] \in {"new", "receiving"} => state'[x] = state[x]
  BY <1>1, KillStep, Zenon
<1>3. Carries(Idle) /\ Idle.pc = "idle"
  BY Zenon DEF Carries, Idle
<1>4. RequestsCarry' /\ JudgedIsDone' /\ NewIsUnknown' /\ FirstIsShared' /\ DOMAIN proc' = Procs
  BY <1>1, <1>2, <1>3, LabelStep, Zenon DEF pipeVars
<1>5. Types'
  BY <1>1, <1>2, <1>4, Zenon DEF IInv, Types, TypeOK, mapVars, pipeVars
<1> QED
  BY <1>2, <1>4, <1>5, Zenon DEF IInv

(* terminate labels a receiving session and closes its window.             *)
LEMMA TerminateStep ==
  ASSUME IInv, NEW r \in Procs, Terminate(r)
  PROVE  IInv'
<1>0. PICK s, then : s = proc[r].s /\ then = proc[r].then
  BY Zenon
<1> DEFINE local == [pc |-> "remove", s |-> s, then |-> then]
<1>1. /\ killAttemptLocked(s) /\ Goto(r, local)
      /\ UNCHANGED <<mapVars, attempt, win, done, prev, hashes, got, pos, pipeVars, known>>
      /\ IF state[s] = "receiving" THEN /\ state' = [state EXCEPT ![s] = "aborted"]
                                        /\ err' = [err EXCEPT ![s] = "terminated"]
                                   ELSE UNCHANGED <<state, err>>
  BY <1>0, Zenon DEF Terminate
<1>2. /\ Lifecycle' /\ NewIsEmpty' /\ NoMixedUpload'
      /\ open' \in [Sids -> [Attempts -> BOOLEAN]]
      /\ state' \in [Sids -> States]
      /\ err' \in [Sids -> {Null, "put", "changed", "terminated"}]
      /\ \A x \in Sids : state'[x] \in {"new", "receiving"} => state'[x] = state[x]
  BY <1>1, KillStep, Zenon
<1>3. r \in Reqs => Carries(local) /\ local.pc = "remove"
  BY <1>0, Zenon DEF IInv, RequestsCarry, Carries, Terminate
<1>4. RequestsCarry' /\ JudgedIsDone' /\ NewIsUnknown' /\ FirstIsShared' /\ DOMAIN proc' = Procs
  BY <1>1, <1>2, <1>3, LabelStep, Zenon DEF pipeVars
<1>5. Types'
  BY <1>1, <1>2, <1>4, Zenon DEF IInv, Types, TypeOK, mapVars, pipeVars
<1> QED
  BY <1>2, <1>4, <1>5, Zenon DEF IInv

(* A removal, and a scan of the expiry loop.                               *)
LEMMA RemoveStep ==
  ASSUME IInv, NEW r \in Procs, Remove(r)
  PROVE  IInv'
<1>0. PICK then : then = proc[r].then
  BY Zenon
<1>1. /\ Goto(r, then) /\ UNCHANGED <<sessVars, winVars, pipeVars, known>>
      /\ byID' \subseteq Sids /\ byKey' \in Sids \union {Null}
  BY <1>0, Zenon DEF Remove, IInv, Types, TypeOK
<1>2. r \in Reqs => Carries(then) /\ then.pc \in {"idle", "create"}
  BY <1>0 DEF Remove, IInv, RequestsCarry, Carries, Idle
<1> QED
  BY <1>1, <1>2, LocalStep, Zenon

(* The expiry loop picks sessions.                                         *)
LEMMA GcScanStep ==
  ASSUME IInv, NEW expired \in SUBSET byID, GcScan(expired)
  PROVE  IInv'
<1>0. PICK chain : chain = GcChain(expired)
  BY Zenon
<1>1. /\ Gc \in Procs /\ Gc \notin Reqs /\ Goto(Gc, chain)
      /\ UNCHANGED <<sessVars, winVars, pipeVars, known>>
      /\ byID' \subseteq Sids /\ byKey' \in Sids \union {Null}
  BY <1>0, SessionsAssumption, Zenon DEF GcScan, Procs, IInv, Types, TypeOK, mapVars
<1> QED
  BY <1>1, LocalStep, Zenon

-----------------------------------------------------------------------------
(* A pipeline goes from one of its steps to the next before the verdict,   *)
(* or signals the verdict.                                                 *)
LEMMA PipelineMoves ==
  ASSUME IInv, NEW s \in Sids, NEW k \in Attempts,
         pipe' \in [Sids -> [Attempts -> Steps]],
         \/ pipe[s][k] = "put" /\ pipe'[s][k] = "harvest"
         \/ pipe[s][k] = "harvest" /\ pipe'[s][k] = "close"
         \/ pipe[s][k] = "close" /\ pipe'[s][k] = "finish"
         \/ pipe[s][k] = "signal" /\ pipe'[s][k] = "done",
         \A x \in Sids, j \in Attempts : x # s \/ j # k => pipe'[x][j] = pipe[x][j],
         res' \in [Sids -> [Attempts -> Results \union {Null}]],
         \A x \in Sids, j \in Attempts : x # s \/ j # k => res'[x][j] = res[x][j],
         pipe'[s][k] = "harvest" =>
           res'[s][k] \in Results /\ (res'[s][k] = "retriable" => k < MaxAttempt),
         pipe'[s][k] # "harvest" => res'[s][k] = res[s][k],
         open' \in [Sids -> [Attempts -> BOOLEAN]],
         \A x \in Sids, j \in Attempts : open'[x][j] => open[x][j],
         pipe'[s][k] = "finish" => ~open'[s][k],
         harvest' \in [Sids -> [Attempts -> [Chunks -> Files \union {Null}]]],
         UNCHANGED <<mapVars, sessVars, got, pos, proc, known>>
  PROVE  IInv'
<1> USE SessionsAssumption
<1>s. /\ state' = state /\ err' = err /\ attempt' = attempt /\ win' = win /\ done' = done
      /\ hashes' = hashes
  BY Zenon DEF sessVars
<1>r. ASSUME NEW x \in Sids, NEW j \in Attempts
      PROVE  /\ pipe'[x][j] \in Running => pipe[x][j] \in Running
             /\ pipe[x][j] \in Running => pipe'[x][j] \in Running
             /\ pipe[x][j] = "none" => pipe'[x][j] = "none"
             /\ pipe[x][j] = "done" => pipe'[x][j] = "done"
  <2>1. CASE x = s /\ j = k
    BY <2>1, Zenon DEF Running
  <2>2. CASE x # s \/ j # k
    BY <2>2, Zenon
  <2> QED
    BY <2>1, <2>2, Zenon
<1>1. Types'
  BY Zenon DEF IInv, Types, TypeOK, mapVars, sessVars
<1>2. RunningIsCurrent'
  BY <1>s, <1>r DEF IInv, Lifecycle, RunningIsCurrent
<1>3. NextIsUnused'
  <2>1. \A x \in Sids : attempt[x] \in Attempts /\ 0 \in Attempts
    BY DEF IInv, Types, TypeOK, Attempts
  <2> SUFFICES ASSUME NEW x \in Sids
               PROVE  /\ state[x] = "new" => attempt[x] = 0 /\ pipe'[x][0] = "none"
                      /\ state[x] = "failed_retriable" =>
                           attempt[x] # 0 /\ pipe'[x][attempt[x]] = "none"
                      /\ \A j \in Attempts : j > attempt[x] => pipe'[x][j] = "none"
    BY <1>s DEF NextIsUnused
  <2> QED
    BY <1>r, <2>1, ZenonT(60) DEF IInv, Lifecycle, NextIsUnused
<1>4. ResultKnown'
  <2> SUFFICES ASSUME NEW x \in Sids, NEW j \in Attempts,
                      pipe'[x][j] \in {"harvest", "close", "finish"}
               PROVE  res'[x][j] \in Results /\ (res'[x][j] = "retriable" => j < MaxAttempt)
    BY Zenon DEF ResultKnown
  <2>1. CASE x = s /\ j = k
    BY <2>1, Zenon DEF IInv, Lifecycle, ResultKnown
  <2>2. CASE ~(x = s /\ j = k)
    <3>1. res'[x][j] = res[x][j] /\ pipe'[x][j] = pipe[x][j]
      BY <2>2, Zenon
    <3> QED
      BY <3>1, Zenon DEF IInv, Lifecycle, ResultKnown
  <2> QED
    BY <2>1, <2>2, Zenon
<1>5. OpenIsReceiving'
  <2> SUFFICES ASSUME NEW x \in Sids, NEW j \in Attempts, open'[x][j]
               PROVE  state[x] = "receiving" /\ j = attempt[x]
                      /\ pipe'[x][j] \in {"put", "harvest", "close"}
    BY <1>s, Zenon DEF OpenIsReceiving
  <2>1. state[x] = "receiving" /\ j = attempt[x] /\ pipe[x][j] \in {"put", "harvest", "close"}
    BY Zenon DEF IInv, Lifecycle, OpenIsReceiving
  <2> QED
    BY <2>1, ZenonT(60)
<1>6. ReceivingHasPipeline' /\ FailureHasCause'
  <2>1. \A x \in Sids : win[x] # Null => win[x] \in Attempts
    BY DEF IInv, Types, TypeOK
  <2> QED
    BY <1>s, <1>r, <2>1, Zenon DEF IInv, Lifecycle, ReceivingHasPipeline, FailureHasCause
<1>7. SuccessStays'
  <2> SUFFICES ASSUME NEW x \in Sids, NEW j \in Attempts,
                      pipe'[x][j] \in {"signal", "done"}, res'[x][j] \in Success
               PROVE  \/ state[x] = "completed"
                      \/ state[x] = "failed_permanent" /\ err[x] = "changed"
    BY <1>s, Zenon DEF SuccessStays
  <2>1. pipe[x][j] \in {"signal", "done"} /\ res'[x][j] = res[x][j]
    <3>1. CASE x = s /\ j = k
      BY <3>1, Zenon
    <3>2. CASE ~(x = s /\ j = k)
      BY <3>2, Zenon
    <3> QED
      BY <3>1, <3>2, Zenon
  <2> QED
    BY <2>1, Zenon DEF IInv, Lifecycle, SuccessStays
<1>8. RequestsCarry' /\ JudgedIsDone'
  <2>1. RequestsCarry'
    BY Zenon DEF IInv, RequestsCarry
  <2>2. \A q \in Reqs : proc[q].pc = "report" /\ proc[q].judged # Null =>
                          proc[q].s \in Sids /\ proc[q].judged \in Attempts
    BY Zenon DEF IInv, RequestsCarry, Carries
  <2>3. JudgedIsDone'
    BY <1>r, <2>2, ZenonT(60) DEF IInv, JudgedIsDone
  <2> QED
    BY <2>1, <2>3, Zenon
<1>9. NewIsUnknown' /\ NewIsEmpty' /\ NoMixedUpload'
  BY <1>s, SMTT(60) DEF IInv, NewIsUnknown, NewIsEmpty, NoMixedUpload
<1>10. FirstIsShared'
  <2>1. \A x, f : SharedBy(x, f) => SharedBy(x, f)'
    BY <1>s, Zenon DEF SharedBy
  <2> QED
    BY <1>s, <2>1, Zenon DEF IInv, FirstIsShared
<1> QED
  BY <1>1, <1>2, <1>3, <1>4, <1>5, <1>6, <1>7, <1>8, <1>9, <1>10, Zenon DEF IInv, Lifecycle

(* The steps of a pipeline but the verdict.                                *)
LEMMA PipelineSteps ==
  ASSUME IInv, NEW s \in Sids, NEW k \in Attempts,
         \/ Deliver(s, k) \/ Harvest(s, k) \/ CloseWindow(s, k) \/ CloseDone(s, k)
         \/ \E result \in Results, opPut \in BOOLEAN : PutReturns(s, k, result, opPut)
  PROVE  IInv'
<1> USE SessionsAssumption
<1>t. /\ open \in [Sids -> [Attempts -> BOOLEAN]]
      /\ res \in [Sids -> [Attempts -> Results \union {Null}]]
      /\ got \in [Sids -> [Attempts -> [Chunks -> Files \union {Null}]]]
      /\ harvest \in [Sids -> [Attempts -> [Chunks -> Files \union {Null}]]]
      /\ pipe \in [Sids -> [Attempts -> Steps]]
      /\ {"harvest", "close", "finish", "done"} \subseteq Steps
  BY Zenon DEF IInv, Types, TypeOK, Steps
<1>1. CASE Deliver(s, k)
  <2>1. pos' \in [Sids -> [Attempts -> 0 .. Total]]
    BY <1>1 DEF Deliver, IInv, Types, TypeOK
  <2>2. UNCHANGED <<mapVars, sessVars, got, open, pipeVars, proc, known>>
    BY <1>1, Zenon DEF Deliver
  <2>3. Types'
    BY <2>1, <2>2, Zenon DEF IInv, Types, TypeOK, mapVars, sessVars, pipeVars
  <2>4. Lifecycle'
    BY <2>2, LifecycleUnchanged, Zenon DEF IInv
  <2>5. RequestsCarry' /\ JudgedIsDone' /\ NewIsUnknown' /\ NewIsEmpty' /\ NoMixedUpload'
    BY <2>2, SMTT(60) DEF IInv, RequestsCarry, JudgedIsDone, NewIsUnknown, NewIsEmpty, NoMixedUpload,
                sessVars, pipeVars
  <2>6. FirstIsShared'
    BY <2>2 DEF IInv, FirstIsShared, SharedBy, sessVars
  <2> QED
    BY <2>3, <2>4, <2>5, <2>6, Zenon DEF IInv
<1>2. CASE Harvest(s, k)
  <2>1. harvest' \in [Sids -> [Attempts -> [Chunks -> Files \union {Null}]]]
    BY <1>2, <1>t DEF Harvest
  <2> QED
    <3>1. /\ pipe[s][k] = "harvest" /\ pipe'[s][k] = "close"
          /\ pipe' \in [Sids -> [Attempts -> Steps]]
          /\ \A x \in Sids, j \in Attempts : x # s \/ j # k => pipe'[x][j] = pipe[x][j]
          /\ res' = res /\ open' = open
          /\ UNCHANGED <<mapVars, sessVars, got, pos, proc, known>>
      BY <1>2, <1>t, Zenon DEF Harvest, winVars
    <3>2. \A x \in Sids, j \in Attempts : open'[x][j] => open[x][j]
      BY <3>1, Zenon
    <3> QED
      BY <1>t, <2>1, <3>1, <3>2, PipelineMoves, Zenon
<1>3. CASE CloseWindow(s, k)
  <2>1. /\ open' \in [Sids -> [Attempts -> BOOLEAN]] /\ ~open'[s][k]
        /\ \A x \in Sids, j \in Attempts : open'[x][j] => open[x][j]
    BY <1>3, <1>t, Zenon DEF CloseWindow
  <2> QED
    <3>1. /\ pipe[s][k] = "close" /\ pipe'[s][k] = "finish"
          /\ pipe' \in [Sids -> [Attempts -> Steps]]
          /\ \A x \in Sids, j \in Attempts : x # s \/ j # k => pipe'[x][j] = pipe[x][j]
          /\ res' = res /\ harvest' = harvest
          /\ UNCHANGED <<mapVars, sessVars, got, pos, proc, known>>
      BY <1>3, <1>t, Zenon DEF CloseWindow
    <3> QED
      BY <1>t, <2>1, <3>1, PipelineMoves
<1>4. CASE CloseDone(s, k)
  <2>1. /\ pipe[s][k] = "signal" /\ pipe'[s][k] = "done"
        /\ pipe' \in [Sids -> [Attempts -> Steps]]
        /\ \A x \in Sids, j \in Attempts : x # s \/ j # k => pipe'[x][j] = pipe[x][j]
        /\ res' = res /\ open' = open /\ harvest' = harvest
        /\ UNCHANGED <<mapVars, sessVars, got, pos, proc, known>>
    BY <1>4, <1>t, Zenon DEF CloseDone, winVars
  <2>2. \A x \in Sids, j \in Attempts : open'[x][j] => open[x][j]
    BY <2>1, Zenon
  <2> QED
    BY <1>t, <2>1, <2>2, PipelineMoves, Zenon
<1>5. ASSUME NEW result \in Results, NEW opPut \in BOOLEAN, PutReturns(s, k, result, opPut)
      PROVE  IInv'
  <2>1. /\ open' \in [Sids -> [Attempts -> BOOLEAN]]
        /\ \A x \in Sids, j \in Attempts : open'[x][j] => open[x][j]
    BY <1>5, <1>t, SMTT(60) DEF PutReturns
  <2>2. /\ res' \in [Sids -> [Attempts -> Results \union {Null}]] /\ res'[s][k] = result
        /\ \A x \in Sids, j \in Attempts : x # s \/ j # k => res'[x][j] = res[x][j]
    BY <1>5, <1>t DEF PutReturns
  <2> QED
    <3>1. /\ pipe[s][k] = "put" /\ pipe'[s][k] = "harvest"
          /\ pipe' \in [Sids -> [Attempts -> Steps]]
          /\ \A x \in Sids, j \in Attempts : x # s \/ j # k => pipe'[x][j] = pipe[x][j]
          /\ harvest' = harvest /\ (result = "retriable" => k < MaxAttempt)
          /\ UNCHANGED <<mapVars, sessVars, got, pos, proc, known>>
      BY <1>5, <1>t, SMTT(60) DEF PutReturns
    <3> QED
      BY <1>t, <2>1, <2>2, <3>1, PipelineMoves
<1> QED
  BY <1>1, <1>2, <1>3, <1>4, <1>5, Zenon

(* The verdict of an attempt.                                              *)
LEMMA FinishAttemptStep ==
  ASSUME IInv, NEW s \in Sids, NEW k \in Attempts, finishAttempt(s, k)
  PROVE  IInv'
<1> USE SessionsAssumption
<1>t. /\ state \in [Sids -> States] /\ err \in [Sids -> {Null, "put", "changed", "terminated"}]
      /\ attempt \in [Sids -> Attempts] /\ win \in [Sids -> Attempts \union {Null}]
      /\ pipe \in [Sids -> [Attempts -> Steps]]
      /\ got \in [Sids -> [Attempts -> [Chunks -> Files \union {Null}]]]
      /\ harvest \in [Sids -> [Attempts -> [Chunks -> Files \union {Null}]]]
      /\ NoChunks \in [Chunks -> Files \union {Null}]
  BY Zenon DEF IInv, Types, TypeOK, NoChunks
<1>f. /\ k = attempt[s] /\ k = done[s] /\ k = win[s] /\ pipe[s][k] = "finish" /\ ~open[s][k]
      /\ state[s] \in {"receiving", "failed_permanent", "aborted"}
      /\ res[s][k] \in Results /\ (res[s][k] = "retriable" => k < MaxAttempt)
  BY Zenon DEF finishAttempt, IInv, Lifecycle, RunningIsCurrent, Running, ResultKnown, OpenIsReceiving
<1>u. UNCHANGED <<mapVars, done, hashes, open, res, proc, known>>
  BY Zenon DEF finishAttempt
<1>p. \A x \in Sids, j \in Attempts :
        /\ pipe'[x][j] = IF x = s /\ j = k THEN "signal" ELSE pipe[x][j]
        /\ got'[x][j] = IF x = s /\ j = k THEN NoChunks ELSE got[x][j]
  BY <1>t DEF finishAttempt
<1>w. \A x \in Sids : win'[x] = IF x = s THEN Null ELSE win[x]
  BY <1>t, <1>f, Zenon DEF finishAttempt
<1>v. /\ \A x \in Sids : x # s => state'[x] = state[x] /\ err'[x] = err[x] /\ attempt'[x] = attempt[x]
      /\ \/ /\ res[s][k] \in Success /\ state'[s] = "completed" /\ err'[s] = Null
            /\ attempt'[s] = k
         \/ /\ res[s][k] \notin Success /\ state[s] \in {"failed_permanent", "aborted"}
            /\ state'[s] = state[s] /\ attempt'[s] = k
            /\ err'[s] # Null /\ (err[s] # Null => err'[s] = err[s])
         \/ /\ res[s][k] \notin Success /\ state[s] = "receiving"
            /\ state'[s] = "failed_permanent" /\ err'[s] = "put"
            /\ attempt'[s] = k
         \/ /\ res[s][k] \notin Success /\ state[s] = "receiving" /\ k < MaxAttempt
            /\ state'[s] = "failed_retriable" /\ err'[s] = "put"
            /\ attempt'[s] = k + 1
  <2>1. CASE /\ res[s][k] \in Success
             /\ state' = [state EXCEPT ![s] = "completed"] /\ err' = [err EXCEPT ![s] = Null]
             /\ UNCHANGED attempt
    BY <1>t, <1>f, <2>1, Zenon
  <2>2. CASE /\ res[s][k] \notin Success /\ state[s] # "receiving"
             /\ err' = IF err[s] = Null THEN [err EXCEPT ![s] = "put"] ELSE err
             /\ UNCHANGED <<state, attempt>>
    <3>1. err'[s] # Null /\ (err[s] # Null => err'[s] = err[s])
      BY <1>t, <2>2, Zenon
    <3>2. \A x \in Sids : x # s => err'[x] = err[x]
      BY <1>t, <2>2, Zenon
    <3> QED
      BY <1>f, <2>2, <3>1, <3>2, Zenon
  <2>3. CASE /\ res[s][k] \notin Success /\ state[s] = "receiving"
             /\ state' = [state EXCEPT ![s] = "failed_permanent"] /\ err' = [err EXCEPT ![s] = "put"]
             /\ UNCHANGED attempt
    BY <1>t, <1>f, <2>3, Zenon
  <2>4. CASE /\ res[s][k] \notin Success /\ res[s][k] # "permanent" /\ state[s] = "receiving"
             /\ state' = [state EXCEPT ![s] = "failed_retriable"]
             /\ err' = [err EXCEPT ![s] = "put"] /\ attempt' = [attempt EXCEPT ![s] = @ + 1]
    <3>1. k < MaxAttempt
      BY <1>f, <2>4, Zenon DEF Results
    <3> QED
      BY <1>t, <1>f, <2>4, <3>1, Zenon
  <2> QED
    BY <2>1, <2>2, <2>3, <2>4, Zenon DEF finishAttempt, Labelled, isPermanentPutError
<1>1. Types'
  <2>1. state' \in [Sids -> States] /\ err' \in [Sids -> {Null, "put", "changed", "terminated"}]
    BY <1>t, Zenon DEF finishAttempt, States
  <2>2. attempt' \in [Sids -> Attempts]
    <3>1. DOMAIN attempt' = Sids /\ attempt' = [x \in Sids |-> attempt'[x]]
      BY <1>t, Zenon DEF finishAttempt
    <3>2. \A x \in Sids : attempt'[x] \in Attempts
      <4>1. attempt'[s] = k \/ (k < MaxAttempt /\ attempt'[s] = k + 1)
        BY <1>v, Zenon
      <4>2. attempt'[s] \in Attempts
        BY <4>1 DEF Attempts
      <4> QED
        BY <1>t, <1>v, <4>2, Zenon
    <3> QED
      BY <3>1, <3>2, Zenon
  <2>3. win' \in [Sids -> Attempts \union {Null}] /\ pipe' \in [Sids -> [Attempts -> Steps]]
    BY <1>t, Zenon DEF finishAttempt, Steps
  <2>4. /\ prev' \in [Sids -> [Chunks -> Files \union {Null}]]
        /\ got' \in [Sids -> [Attempts -> [Chunks -> Files \union {Null}]]]
        /\ harvest' \in [Sids -> [Attempts -> [Chunks -> Files \union {Null}]]]
    BY <1>t, SMTT(60) DEF finishAttempt, IInv, Types, TypeOK
  <2>5. pos' \in [Sids -> [Attempts -> 0 .. Total]]
    BY SMTT(60) DEF finishAttempt, IInv, Types, TypeOK
  <2> QED
    BY <1>u, <2>1, <2>2, <2>3, <2>4, <2>5, Zenon DEF IInv, Types, TypeOK, mapVars
<1>2. RunningIsCurrent'
  <2> SUFFICES ASSUME NEW x \in Sids, NEW j \in Attempts, pipe'[x][j] \in Running
               PROVE  /\ j = attempt'[x] /\ j = done[x] /\ j = win'[x]
                      /\ state'[x] \in {"receiving", "failed_permanent", "aborted"}
    BY <1>u, Zenon DEF RunningIsCurrent
  <2>1. pipe[x][j] \in Running /\ ~(x = s /\ j = k)
    BY <1>p, Zenon DEF Running
  <2>2. x # s
    BY <1>f, <2>1, Zenon DEF IInv, Lifecycle, RunningIsCurrent
  <2> QED
    BY <1>v, <1>w, <2>1, <2>2, Zenon DEF IInv, Lifecycle, RunningIsCurrent
<1>3. NextIsUnused'
  <2> SUFFICES ASSUME NEW x \in Sids
               PROVE  /\ state'[x] = "new" => attempt'[x] = 0 /\ pipe'[x][0] = "none"
                      /\ state'[x] = "failed_retriable" =>
                           attempt'[x] # 0 /\ pipe'[x][attempt'[x]] = "none"
                      /\ \A j \in Attempts : j > attempt'[x] => pipe'[x][j] = "none"
    BY Zenon DEF NextIsUnused
  <2>1. /\ 0 \in Attempts /\ k \in Nat /\ attempt[x] \in Attempts
        /\ (k < MaxAttempt => k + 1 \in Attempts)
    BY <1>t DEF Attempts
  <2>2. CASE x # s
    <3>1. /\ state[x] = "new" => attempt[x] = 0 /\ pipe[x][0] = "none"
          /\ state[x] = "failed_retriable" => attempt[x] # 0 /\ pipe[x][attempt[x]] = "none"
          /\ \A j \in Attempts : j > attempt[x] => pipe[x][j] = "none"
      BY Zenon DEF IInv, Lifecycle, NextIsUnused
    <3>2. \A j \in Attempts : pipe'[x][j] = pipe[x][j]
      BY <1>p, <2>2, Zenon
    <3>3. state'[x] = state[x] /\ attempt'[x] = attempt[x]
      BY <1>v, <2>2, Zenon
    <3> QED
      BY <2>1, <3>1, <3>2, <3>3, Zenon
  <2>3. CASE x = s
    <3>1. \A j \in Attempts : j > k => pipe'[s][j] = "none"
      <4>1. \A j \in Attempts : j > k => pipe[s][j] = "none"
        BY <1>f, Zenon DEF IInv, Lifecycle, NextIsUnused
      <4>2. \A j \in Attempts : j > k => j # k
        BY <2>1 DEF Attempts
      <4> QED
        BY <1>p, <4>1, <4>2, Zenon
    <3>2. attempt'[s] \in {k, k + 1}
      BY <1>v, Zenon
    <3>3. \A j \in Attempts : j > attempt'[s] => pipe'[s][j] = "none"
      BY <2>1, <3>1, <3>2, SMTT(60) DEF Attempts
    <3>4. state'[s] = "failed_retriable" =>
             attempt'[s] = k + 1 /\ k + 1 \in Attempts /\ k + 1 > k /\ k + 1 # 0
      BY <1>f, <1>v, <2>1
    <3>5. state'[s] # "new"
      BY <1>f, <1>v, Zenon
    <3> QED
      BY <2>3, <3>1, <3>3, <3>4, <3>5, Zenon
  <2> QED
    BY <2>2, <2>3, Zenon
<1>4. ResultKnown'
  BY <1>p, <1>u, Zenon DEF IInv, Lifecycle, ResultKnown
<1>5. OpenIsReceiving'
  <2> SUFFICES ASSUME NEW x \in Sids, NEW j \in Attempts, open[x][j]
               PROVE  state'[x] = "receiving" /\ j = attempt'[x]
                      /\ pipe'[x][j] \in {"put", "harvest", "close"}
    BY <1>u, Zenon DEF OpenIsReceiving
  <2>1. state[x] = "receiving" /\ j = attempt[x] /\ pipe[x][j] \in {"put", "harvest", "close"}
    BY Zenon DEF IInv, Lifecycle, OpenIsReceiving
  <2>2. x # s
    BY <1>f, <2>1, Zenon
  <2> QED
    BY <1>p, <1>v, <2>1, <2>2, Zenon
<1>6. ReceivingHasPipeline'
  <2> SUFFICES ASSUME NEW x \in Sids, state'[x] = "receiving"
               PROVE  win'[x] # Null /\ win'[x] = done[x] /\ pipe'[x][win'[x]] \in Running
    BY <1>u, Zenon DEF ReceivingHasPipeline
  <2>1. x # s
    BY <1>v, Zenon
  <2> QED
    BY <1>p, <1>t, <1>v, <1>w, <2>1, SMTT(60) DEF IInv, Lifecycle, ReceivingHasPipeline
<1>7. FailureHasCause'
  BY <1>v, Zenon DEF IInv, Lifecycle, FailureHasCause
<1>8. SuccessStays'
  <2> SUFFICES ASSUME NEW x \in Sids, NEW j \in Attempts,
                      pipe'[x][j] \in {"signal", "done"}, res[x][j] \in Success
               PROVE  \/ state'[x] = "completed"
                      \/ state'[x] = "failed_permanent" /\ err'[x] = "changed"
    BY <1>u, Zenon DEF SuccessStays
  <2>1. CASE x = s /\ j = k
    BY <1>v, <2>1, Zenon DEF Success
  <2>2. CASE ~(x = s /\ j = k)
    <3>1. \/ state[x] = "completed"
          \/ state[x] = "failed_permanent" /\ err[x] = "changed"
      BY <1>p, <2>2, Zenon DEF IInv, Lifecycle, SuccessStays
    <3> QED
      BY <1>f, <1>v, <3>1, Zenon
  <2> QED
    BY <2>1, <2>2, Zenon
<1>9. RequestsCarry' /\ JudgedIsDone'
  <2>1. RequestsCarry'
    BY <1>u, Zenon DEF IInv, RequestsCarry
  <2>2. \A q \in Reqs : proc[q].pc = "report" /\ proc[q].judged # Null =>
                          proc[q].s \in Sids /\ proc[q].judged \in Attempts
    BY Zenon DEF IInv, RequestsCarry, Carries
  <2>3. JudgedIsDone'
    BY <1>f, <1>p, <1>u, <2>2, SMTT(60) DEF IInv, JudgedIsDone
  <2> QED
    BY <2>1, <2>3, Zenon
<1>10. NewIsUnknown' /\ NewIsEmpty' /\ FirstIsShared' /\ NoMixedUpload'
  <2>1. /\ 0 \in Attempts
        /\ \A x \in Sids : state'[x] \in {"new", "receiving"} =>
             x # s /\ state[x] = state'[x] /\ attempt'[x] = attempt[x] /\ got'[x][0] = got[x][0]
    <3>1. 0 \in Attempts
      BY DEF Attempts
    <3> QED
      BY <1>f, <1>p, <1>v, <3>1
  <2>2. NewIsUnknown'
    BY <1>u, <2>1, Zenon DEF IInv, NewIsUnknown
  <2>3. NewIsEmpty'
    BY <2>1, SMTT(60) DEF IInv, NewIsEmpty
  <2>4. FirstIsShared'
    <3> SUFFICES ASSUME NEW x \in Sids, state'[x] = "receiving", attempt'[x] = 0
                 PROVE  \E f \in Files : SharedBy(x, f)'
      BY Zenon DEF FirstIsShared
    <3>1. PICK f \in Files : SharedBy(x, f)
      BY <2>1, Zenon DEF IInv, FirstIsShared
    <3>2. SharedBy(x, f)'
      BY <1>u, <2>1, <3>1, Zenon DEF SharedBy
    <3> QED
      BY <3>2, Zenon
  <2>5. NoMixedUpload'
    <3>1. \A x \in Sids : got'[x][0] \in {got[x][0], NoChunks}
      BY <1>p, <2>1, Zenon
    <3> QED
      BY <3>1 DEF IInv, NoMixedUpload, NoChunks
  <2> QED
    BY <2>2, <2>3, <2>4, <2>5, Zenon
<1> QED
  BY <1>1, <1>2, <1>3, <1>4, <1>5, <1>6, <1>7, <1>8, <1>9, <1>10, Zenon DEF IInv, Lifecycle

-----------------------------------------------------------------------------
(* Every step keeps the invariant.                                         *)
LEMMA NextIInv == IInv /\ [Next]_vars => IInv'
<1> SUFFICES ASSUME IInv, [Next]_vars PROVE IInv'
  BY Zenon
<1>1. ASSUME NEW s \in Sids, NEW k \in Attempts, Pipeline(s, k) PROVE IInv'
  <2>1. CASE finishAttempt(s, k)
    BY <2>1, FinishAttemptStep, Zenon
  <2>2. CASE \/ Deliver(s, k) \/ Harvest(s, k) \/ CloseWindow(s, k) \/ CloseDone(s, k)
             \/ \E result \in Results, opPut \in BOOLEAN : PutReturns(s, k, result, opPut)
    BY <2>2, PipelineSteps, Zenon
  <2> QED
    BY <1>1, <2>1, <2>2, Zenon DEF Pipeline
<1>2. ASSUME NEW r \in Reqs, Request(r) PROVE IInv'
  BY <1>2, LookupSteps, Zenon
<1>3. ASSUME NEW r \in Reqs, Continue(r) \/ CompleteCancelled(r) PROVE IInv'
  <2>1. CASE \/ InitFails(r) \/ ChunkRefused(r) \/ ChunkReport(r) \/ CompleteLoop(r)
             \/ CompleteWake(r) \/ CompleteCancelled(r) \/ CompleteVerdict(r)
             \/ \E timeout \in BOOLEAN : ChunkAwait(r, timeout)
    BY <2>1, WaitingSteps, Zenon
  <2>2. ASSUME NEW s \in Sids, InitCreate(r, s) PROVE IInv'
    BY <2>2, InitCreateStep, Zenon
  <2>3. CASE InitInsert(r)
    BY <2>3, InitInsertStep, Zenon
  <2>4. CASE ChunkEnter(r)
    BY <2>4, ChunkEnterStep, Zenon
  <2>5. CASE ChunkWrite(r)
    BY <2>5, ChunkWriteStep, Zenon
  <2>6. CASE ChunkChanged(r)
    BY <2>6, ChunkChangedStep, Zenon
  <2> QED
    BY <1>3, <2>1, <2>2, <2>3, <2>4, <2>5, <2>6, Zenon DEF Continue
<1>4. ASSUME NEW r \in Procs, Terminate(r) \/ Remove(r) PROVE IInv'
  BY <1>4, TerminateStep, RemoveStep, Zenon
<1>5. ASSUME NEW expired \in SUBSET byID, GcScan(expired) PROVE IInv'
  BY <1>5, GcScanStep, Zenon
<1>6. CASE UNCHANGED vars
  <2> USE <1>6 DEF vars, mapVars, sessVars, winVars, pipeVars
  <2>1. Types' /\ RequestsCarry' /\ JudgedIsDone' /\ NewIsUnknown' /\ NewIsEmpty' /\ NoMixedUpload'
    <3>1. Types'
      BY Zenon DEF IInv, Types, TypeOK
    <3>2. RequestsCarry' /\ JudgedIsDone'
      BY Zenon DEF IInv, RequestsCarry, Carries, JudgedIsDone
    <3>3. NewIsUnknown' /\ NewIsEmpty'
      BY Zenon DEF IInv, NewIsUnknown, NewIsEmpty
    <3>4. NoMixedUpload'
      BY Zenon DEF IInv, NoMixedUpload
    <3> QED
      BY <3>1, <3>2, <3>3, <3>4, Zenon
  <2>2. Lifecycle'
    BY LifecycleUnchanged, Zenon DEF IInv
  <2>3. FirstIsShared'
    <3>1. \A x, f : SharedBy(x, f) => SharedBy(x, f)'
      BY Zenon DEF SharedBy
    <3> QED
      BY <3>1, Zenon DEF IInv, FirstIsShared
  <2> QED
    BY <2>1, <2>2, <2>3, Zenon DEF IInv
<1> QED
  BY <1>1, <1>2, <1>3, <1>4, <1>5, <1>6, Zenon DEF Next

(* The invariant holds of every reachable state.                           *)
THEOREM Invariance == Spec => []IInv
  BY InitIInv, NextIInv, PTL DEF Spec

(* The manager, the sessions and the windows keep the types of their       *)
(* fields.                                                                 *)
THEOREM TypeCorrect == Spec => []TypeOK
<1>1. IInv => TypeOK
  BY Zenon DEF IInv, Types
<1> QED
  BY <1>1, Invariance, PTL

(* A receiving session always has a window and a pipeline that is going to *)
(* record a verdict, whatever aborts, expiries, changed chunks and retries *)
(* come in between.                                                        *)
THEOREM SessionsHavePipelines == Spec => []ReceivingHasPipeline
<1>1. IInv => ReceivingHasPipeline
  BY Zenon DEF IInv, Lifecycle
<1> QED
  BY <1>1, Invariance, PTL

(* A session has a cause to report exactly when it failed or was aborted.  *)
THEOREM FailuresHaveCauses == Spec => []FailureHasCause
<1>1. IInv => FailureHasCause
  BY Zenon DEF IInv, Lifecycle
<1> QED
  BY <1>1, Invariance, PTL

(* The chunks of a first attempt come from one file, however many clients  *)
(* upload to the same path at the same time.                               *)
THEOREM UploadsNeverMix == Spec => []NoMixedUpload
<1>1. IInv => NoMixedUpload
  BY Zenon DEF IInv
<1> QED
  BY <1>1, Invariance, PTL

(* Only InitCreate and ChunkEnter make a session receive.                  *)
LEMMA StartsAreDisjoint ==
  ASSUME IInv, Next, NEW s \in Sids, state[s] # "receiving", state'[s] = "receiving"
  PROVE  \A k \in Attempts : pipe[s][k] \notin Running
<1>t. state \in [Sids -> States]
  BY Zenon DEF IInv, Types, TypeOK
<1>1. ASSUME NEW x \in Sids, NEW k \in Attempts, Pipeline(x, k) PROVE FALSE
  BY <1>1, <1>t, Zenon DEF Pipeline, Deliver, PutReturns, Harvest, CloseWindow, finishAttempt, CloseDone,
                    sessVars
<1>2. ASSUME NEW r \in Reqs, Request(r) PROVE FALSE
  BY <1>2, Zenon DEF Request, InitLookup, Abort, CompleteGet, ChunkGet, sessVars
<1>3. ASSUME NEW r \in Reqs, Continue(r) \/ CompleteCancelled(r)
      PROVE  \A k \in Attempts : pipe[s][k] \notin Running
  <2>1. ASSUME NEW x \in Sids, InitCreate(r, x)
        PROVE  \A k \in Attempts : pipe[s][k] \notin Running
    <3>1. x = s /\ state[s] = "new"
      BY <1>t, <2>1, Zenon DEF InitCreate, startAttemptLocked
    <3> QED
      BY <3>1, Zenon DEF IInv, Lifecycle, RunningIsCurrent
  <2>2. CASE ChunkEnter(r)
    <3>1. state[s] = "failed_retriable"
      BY <1>t, <2>2, Zenon DEF ChunkEnter, CanRefill, startAttemptLocked, sessVars
    <3> QED
      BY <3>1, Zenon DEF IInv, Lifecycle, RunningIsCurrent
  <2>3. CASE ChunkChanged(r)
    BY <1>t, <2>3, Zenon DEF ChunkChanged
  <2> QED
    BY <1>3, <2>1, <2>2, <2>3, Zenon
       DEF Continue, InitFails, InitInsert, ChunkWrite, ChunkRefused, ChunkAwait, ChunkReport,
           CompleteLoop, CompleteWake, CompleteVerdict, CompleteCancelled, sessVars
<1>4. ASSUME NEW r \in Procs, Terminate(r) \/ Remove(r) PROVE FALSE
  BY <1>4, <1>t, Zenon DEF Terminate, Remove, sessVars
<1>5. ASSUME NEW expired \in SUBSET byID, GcScan(expired) PROVE FALSE
  BY <1>5, Zenon DEF GcScan, sessVars
<1> QED
  BY <1>1, <1>2, <1>3, <1>4, <1>5, Zenon DEF Next

(* No attempt starts while another of the session may still record a       *)
(* verdict: a finishAttempt never meets a newer attempt.                   *)
THEOREM AttemptsNeverOverlap == Spec => AttemptsDisjoint
<1>1. IInv /\ [Next]_vars =>
        [\A s \in Sids : state[s] # "receiving" /\ state'[s] = "receiving" =>
           \A k \in Attempts : pipe[s][k] \notin Running]_vars
  BY StartsAreDisjoint, Zenon
<1> QED
  BY <1>1, Invariance, PTL DEF Spec, AttemptsDisjoint

(* A straggler is told of a failure only if the attempt it waited for did  *)
(* not succeed, or a changed chunk failed the session.                     *)
THEOREM VerdictsAreFinal == Spec => StragglersAbsorbed
<1>1. IInv /\ [Next]_vars =>
        [\A r \in Reqs :
           LET s == proc[r].s IN
           proc[r].pc = "report" /\ proc'[r].pc = "idle" /\ proc[r].judged # Null =>
             \/ state[s] = "completed"
             \/ res[s][proc[r].judged] \notin Success
             \/ err[s] = "changed"]_vars
  <2> SUFFICES ASSUME IInv, NEW r \in Reqs, proc[r].pc = "report", proc[r].judged # Null
               PROVE  \/ state[proc[r].s] = "completed"
                      \/ res[proc[r].s][proc[r].judged] \notin Success
                      \/ err[proc[r].s] = "changed"
    BY Zenon
  <2>1. /\ proc[r].s \in Sids /\ proc[r].judged \in Attempts
        /\ pipe[proc[r].s][proc[r].judged] = "done"
    BY Zenon DEF IInv, RequestsCarry, Carries, JudgedIsDone
  <2> QED
    BY <2>1, Zenon DEF IInv, Lifecycle, SuccessStays
<1> QED
  BY <1>1, Invariance, PTL DEF Spec, StragglersAbsorbed

(* The key is dropped only together with the session it leads to.          *)
THEOREM SuccessorsAreSpared == Spec => RemovalSparesSuccessor
<1>1. IInv /\ [Next]_vars => [byKey # Null /\ byKey' = Null => byKey \notin byID']_vars
  <2> SUFFICES ASSUME IInv, Next, byKey # Null, byKey' = Null
               PROVE  byKey \notin byID'
    BY Zenon
  <2>1. ASSUME NEW s \in Sids, NEW k \in Attempts, Pipeline(s, k) PROVE FALSE
    BY <2>1, Zenon DEF Pipeline, Deliver, PutReturns, Harvest, CloseWindow, finishAttempt, CloseDone,
                mapVars
  <2>2. ASSUME NEW r \in Reqs, Request(r) PROVE FALSE
    BY <2>2, Zenon DEF Request, InitLookup, Abort, CompleteGet, ChunkGet, mapVars
  <2>3. ASSUME NEW r \in Reqs, Continue(r) \/ CompleteCancelled(r) PROVE FALSE
    <3>1. CASE InitInsert(r)
      BY <3>1, SessionsAssumption, Zenon DEF InitInsert, IInv, RequestsCarry, Carries
    <3> QED
      BY <2>3, <3>1, Zenon
         DEF Continue, InitCreate, InitFails, ChunkEnter, ChunkWrite, ChunkRefused, ChunkChanged,
             ChunkAwait, ChunkReport, CompleteLoop, CompleteWake, CompleteVerdict,
             CompleteCancelled, mapVars
  <2>4. ASSUME NEW r \in Procs, Terminate(r) \/ Remove(r) PROVE byKey \notin byID'
    BY <2>4, Zenon DEF Terminate, Remove, mapVars
  <2>5. ASSUME NEW expired \in SUBSET byID, GcScan(expired) PROVE FALSE
    BY <2>5, Zenon DEF GcScan, mapVars
  <2> QED
    BY <2>1, <2>2, <2>3, <2>4, <2>5, Zenon DEF Next
<1> QED
  BY <1>1, Invariance, PTL DEF Spec, RemovalSparesSuccessor
=============================================================================
