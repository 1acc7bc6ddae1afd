------------------------------ MODULE Transfer ------------------------------
(***************************************************************************)
(* Copying and moving between two storages: the FileTransferTask of        *)
(* internal/fs/copy_move.go, run by a task manager, and the                *)
(* TaskGroupCoordinator of internal/task_group, which counts the tasks of  *)
(* one destination directory and, when the last one is done, removes what  *)
(* was moved from the source (HookAndRemove).                              *)
(*                                                                         *)
(* The source holds one level of directories.  Entries are named by their  *)
(* path, the same in both storages; the destination of an entry is the     *)
(* entry of that name.  A task's own steps, its report to the coordinator  *)
(* and the removal in the goroutine of the last task interleave freely.    *)
(* The index hooks of the destination (DstPathToHook) are left out, and    *)
(* the payloads of a group are a set: what is noted twice, or in another   *)
(* order, is removed all the same.                                         *)
(***************************************************************************)
EXTENDS Integers, Sequences, FiniteSets

CONSTANTS Roots,       \* the entries a request may name
          Dir,         \* the one of them that is a directory
          Members,     \* the files in Dir
          DstOld,      \* the files the destination has beforehand
          Kinds,       \* the kinds of request
          Faults,      \* what may fail: "list", "put", "remove", "restart"
          MaxRequests, \* bound: requests
          MaxTasks,    \* bound: tasks ever created
          MaxRetry,    \* how often a manager runs a failed task again
          MaxRestarts  \* bound: restarts of the process

ASSUME TransferAssumption ==
    /\ Dir \in Roots /\ Roots \cap Members = {}
    /\ DstOld \subseteq (Roots \cup Members)
    /\ Kinds \subseteq {"copy", "move", "merge"}
    /\ Faults \subseteq {"list", "put", "remove", "restart"}
    /\ MaxRequests \in Nat /\ MaxTasks \in Nat /\ MaxRestarts \in Nat
    /\ MaxRetry \in Nat

Files == (Roots \ {Dir}) \cup Members
Paths == Roots \cup Members

VARIABLES
    src,        \* the paths the source holds
    dst,        \* what the destination has under a path
    task,       \* the tasks in order of creation
    pending,    \* groupStates[g].pending, 0 when there is no entry
    hasSuccess, \* groupStates[g].hasSuccess
    payloads,   \* groupPayloads[g]: the paths to remove
    restarts,
    broken      \* history: the files whose last task, or their directory's,
                \* failed while the destination had something else there

group == <<pending, hasSuccess, payloads>>
vars == <<src, dst, task, group, restarts, broken>>
-----------------------------------------------------------------------------
(* A group is named by the destination directory: that of a member is Dir. *)
Groups == {"top", "dir"}

GroupOf(p) == IF p \in Members THEN "dir" ELSE "top"

Below(p) == IF p = Dir THEN Members \cup {Dir} ELSE {p}

(* A task before it runs.  todo: the entries still to visit; work: the     *)
(* paths to remove, for the task whose report ended its group.             *)
NewTask(p, kind, g, st) ==
    [path |-> p, kind |-> kind, group |-> g, st |-> st, todo |-> {},
     work |-> {}, bad |-> FALSE, tries |-> 0]

(* The states in which a task counts in its group.                         *)
Counted == {"added", "queued", "listing", "sending", "ok", "bad"}

Init ==
    /\ src = Paths
    /\ dst = [p \in Paths |-> IF p \in DstOld THEN "old"
                              ELSE IF p = Dir /\ DstOld \cap Members # {}
                                   THEN "dir" ELSE "none"]
    /\ task = << >>
    /\ pending = [g \in Groups |-> 0]
    /\ hasSuccess = [g \in Groups |-> FALSE]
    /\ payloads = [g \in Groups |-> {}]
    /\ restarts = 0
    /\ broken = {}
-----------------------------------------------------------------------------
(* The coordinator.                                                        *)

(* AddTask(g, payload); payload is the empty set for nil.                  *)
AddTask(g, payload) ==
    /\ pending' = [pending EXCEPT ![g] = @ + 1]
    /\ payloads' = [payloads EXCEPT ![g] = @ \cup payload]
    /\ UNCHANGED hasSuccess

AppendPayload(g, payload) ==
    /\ payloads' = [payloads EXCEPT ![g] = @ \cup payload]
    /\ UNCHANGED <<pending, hasSuccess>>

(* The Done that ends a group with a success calls onCompletion.           *)
Completes(g, success) == pending[g] = 1 /\ (hasSuccess[g] \/ success)

(* Done(g, success): the last one takes the group out of the maps.         *)
Done(g, success) ==
    IF pending[g] = 0 THEN UNCHANGED group
    ELSE IF pending[g] = 1
    THEN /\ pending' = [pending EXCEPT ![g] = 0]
         /\ hasSuccess' = [hasSuccess EXCEPT ![g] = FALSE]
         /\ payloads' = [payloads EXCEPT ![g] = {}]
    ELSE /\ pending' = [pending EXCEPT ![g] = @ - 1]
         /\ hasSuccess' = [hasSuccess EXCEPT ![g] = @ \/ success]
         /\ UNCHANGED payloads
-----------------------------------------------------------------------------
(* Requests and tasks.                                                     *)

At(t, st) == t \in DOMAIN task /\ task[t].st = st

Goto(t, st) == task' = [task EXCEPT ![t].st = st]

(* A variant of SourceToRemove: a copy is treated as a move.               *)
SourceToRemoveSlip(kind, p) == {p}

(* A variant of SourceToRemove: it is for copies only.                     *)
SourceToRemoveFlip(kind, p) == IF kind = "copy" THEN {p} ELSE {}

SourceToRemove(kind, p) == IF kind = "move" THEN {p} ELSE {}

(* transfer: the task is counted, ...                                      *)
transfer(p, kind) ==
    /\ Len(task) < MaxTasks
    /\ Cardinality({t \in DOMAIN task : task[t].path \in Roots}) < MaxRequests
    /\ task' = Append(task, NewTask(p, kind, "top", "added"))
    /\ AddTask("top", {})
    /\ UNCHANGED <<src, dst, restarts, broken>>

(* ... what is to be removed is noted, and the task goes to its manager.   *)
Submit(t) ==
    /\ At(t, "added")
    /\ AppendPayload("top", SourceToRemove(task[t].kind, task[t].path))
    /\ Goto(t, "queued")
    /\ UNCHANGED <<src, dst, restarts, broken>>

(* The entries a directory task makes tasks for: a merge skips the files   *)
(* the destination has.                                                    *)
Listed(kind) ==
    {c \in Members \cap src : kind = "merge" => dst[c] = "none"}

(* What the failure of a task for p may cost, where d is the destination   *)
(* afterwards: the files it holds something else for, under their name or  *)
(* that of their directory, and one that it held and no longer does.       *)
Spoilt(p, d) ==
    {f \in Below(p) \cap Files :
        \/ d[f] \in {"old", "part"} \/ (f \in Members /\ d[Dir] = "old")
        \/ dst[f] = "own" /\ d[f] # "own"}

(* Run: an entry that is gone fails; a directory is listed first.          *)
Run(t) ==
    /\ At(t, "queued")
    /\ LET p == task[t].path IN
       \/ /\ p \notin src \/ "list" \in Faults
          /\ Goto(t, "bad") /\ broken' = broken \cup Spoilt(p, dst)
       \/ /\ p \in src /\ p = Dir /\ UNCHANGED broken
          /\ task' = [task EXCEPT ![t].st = "listing",
                                  ![t].todo = Listed(task[t].kind)]
       \/ /\ p \in src /\ p # Dir /\ UNCHANGED broken
          /\ Goto(t, "sending")
    /\ UNCHANGED <<src, dst, group, restarts>>

(* A variant of Spawn: the manager has the task before it is counted.      *)
SpawnSlip(t) ==
    /\ At(t, "listing") /\ Len(task) < MaxTasks
    /\ \E c \in task[t].todo :
       /\ task' = Append([task EXCEPT ![t].todo = @ \ {c}],
                         NewTask(c, task[t].kind, task[t].group, "queued"))
       /\ UNCHANGED <<src, dst, group, restarts, broken>>

(* RunWithNextTaskCallback: a task for each entry, counted first.          *)
Spawn(t) ==
    /\ At(t, "listing") /\ Len(task) < MaxTasks
    /\ \E c \in task[t].todo :
       /\ task' = Append([task EXCEPT ![t].todo = @ \ {c}],
                         NewTask(c, task[t].kind, task[t].group, "queued"))
       /\ AddTask(task[t].group, {})
       /\ UNCHANGED <<src, dst, restarts, broken>>

(* The directory task ends; a cancelled one ends before its list does.     *)
Listing(t) ==
    /\ At(t, "listing")
    /\ \/ task[t].todo = {} /\ Goto(t, "ok") /\ UNCHANGED broken
       \/ /\ task[t].todo # {} /\ "list" \in Faults
          /\ Goto(t, "bad") /\ broken' = broken \cup Spoilt(Dir, dst)
    /\ UNCHANGED <<src, dst, group, restarts>>

(* op.Put makes the directory of the destination first; it cannot when a   *)
(* file has its name.                                                      *)
Blocked(p) == p \in Members /\ dst[Dir] = "old"

Made(P) == IF P \cap Members # {} /\ dst[Dir] = "none"
           THEN [dst EXCEPT ![Dir] = "dir"] ELSE dst

(* What an upload of p that fails may leave: nothing has happened yet, the *)
(* directory is there, or the driver began to write, and left the file cut *)
(* short or took it away.                                                  *)
CutShort(p) ==
    IF Blocked(p) THEN {dst}
    ELSE {dst, Made({p})} \cup {[Made({p}) EXCEPT ![p] = x] : x \in {"part", "none"}}

(* op.Put: the file is written, or the upload fails.                       *)
Put(t) ==
    LET p == task[t].path
    IN  /\ At(t, "sending")
        /\ \/ /\ p \in src /\ ~Blocked(p)
              /\ dst' = [Made({p}) EXCEPT ![p] = "own"]
              /\ Goto(t, "ok") /\ broken' = broken \ {p}
           \/ /\ "put" \in Faults \/ p \notin src \/ Blocked(p)
              /\ dst' \in CutShort(p)
              /\ Goto(t, "bad") /\ broken' = broken \cup Spoilt(p, dst')
        /\ UNCHANGED <<src, group, restarts>>

(* The manager runs a task that failed again, before it reports.           *)
Again(t) ==
    /\ At(t, "bad") /\ task[t].tries < MaxRetry
    /\ task' = [task EXCEPT ![t].st = "queued", ![t].tries = @ + 1]
    /\ UNCHANGED <<src, dst, group, restarts, broken>>

(* OnSucceeded and OnFailed report to the coordinator, and the task that   *)
(* ends the group goes on to HookAndRemove.                                *)
Report(t) ==
    \E success \in BOOLEAN :
       LET g == task[t].group IN
       /\ At(t, IF success THEN "ok" ELSE "bad")
       /\ Done(g, success)
       /\ IF Completes(g, success)
          THEN task' = [task EXCEPT ![t].st = "hook", ![t].work = payloads[g],
                                    ![t].bad = ~success]
          ELSE Goto(t, IF success THEN "done" ELSE "failed")
       /\ UNCHANGED <<src, dst, restarts, broken>>

(* SetRetry(0): a failed task is started again by hand, in the group of    *)
(* its own directory, and removes its own source.                          *)
Retry(t) ==
    /\ At(t, "failed")
    /\ LET g == GroupOf(task[t].path) IN
       /\ task' = [task EXCEPT ![t].st = "queued", ![t].group = g, ![t].todo = {},
                               ![t].tries = 0]
       /\ AddTask(g, SourceToRemove(task[t].kind, task[t].path))
    /\ UNCHANGED <<src, dst, restarts, broken>>
-----------------------------------------------------------------------------
(* HookAndRemove, in the goroutine of the task that ended the group.       *)

EndHook(t) ==
    [task EXCEPT ![t].st = IF task[t].bad THEN "failed" ELSE "done"]

NextPayload(t, p) == [task EXCEPT ![t].work = @ \ {p}]

(* A variant of Verified that does not look at the destination.            *)
VerifiedSlip(p) == p \in src

(* verifyAndRemove goes on with an entry that both storages have.          *)
Verified(p) == p \in src /\ dst[p] # "none"

(* op.Remove takes everything below an entry, or fails.                    *)
Remove(p) ==
    \/ src' = src \ Below(p)
    \/ "remove" \in Faults /\ src' = src

(* verifyAndRemove of a payload: what is no directory in the destination   *)
(* is removed; a directory is visited first.                               *)
verifyAndRemove(t) ==
    /\ At(t, "hook")
    /\ \E p \in task[t].work :
       \/ /\ ~Verified(p) /\ task' = NextPayload(t, p) /\ UNCHANGED src
       \/ /\ Verified(p) /\ dst[p] # "dir"
          /\ Remove(p) /\ task' = NextPayload(t, p)
       \/ /\ Verified(p) /\ dst[p] = "dir"
          /\ task' = [task EXCEPT ![t].st = "walk", ![t].todo = Members \cap src]
          /\ UNCHANGED src
    /\ UNCHANGED <<dst, group, restarts, broken>>

(* An entry that cannot be verified or removed spares its directory; todo  *)
(* keeps it.                                                               *)
VisitMember(t) ==
    /\ At(t, "walk")
    /\ \E c \in task[t].todo :
          /\ Verified(c)
          /\ src' = src \ {c}
          /\ task' = [task EXCEPT ![t].todo = @ \ {c}]
    /\ UNCHANGED <<dst, group, restarts, broken>>

(* The directory itself goes when all its entries went.                    *)
LeaveDir(t) ==
    /\ At(t, "walk")
    /\ \A c \in task[t].todo : ~Verified(c) \/ "remove" \in Faults
    /\ task' = [NextPayload(t, Dir) EXCEPT ![t].st = "hook", ![t].todo = {}]
    /\ IF task[t].todo = {} THEN Remove(Dir) ELSE UNCHANGED src
    /\ UNCHANGED <<dst, group, restarts, broken>>

FinishHook(t) ==
    /\ At(t, "hook") /\ task[t].work = {}
    /\ task' = EndHook(t)
    /\ UNCHANGED <<src, dst, group, restarts, broken>>
-----------------------------------------------------------------------------
(* A restart forgets the coordinator and every goroutine, and cuts uploads *)
(* short.  The managers persist their tasks; the group of a task is not    *)
(* among what they keep.                                                   *)
Restart ==
    /\ "restart" \in Faults /\ restarts < MaxRestarts
    /\ restarts' = restarts + 1
    /\ pending' = [g \in Groups |-> 0]
    /\ hasSuccess' = [g \in Groups |-> FALSE]
    /\ payloads' = [g \in Groups |-> {}]
    /\ task' = [t \in DOMAIN task |->
         LET r == task[t]
             st == CASE r.st \in {"added", "lost"} -> "lost"
                     [] r.st \in {"queued", "listing", "sending", "reload"} -> "reload"
                     [] r.st = "bad" -> "failed"
                     [] r.st = "failed" -> "failed"
                     [] r.st \in {"hook", "walk"} /\ r.bad -> "failed"
                     [] OTHER -> "done"
         IN  NewTask(r.path, r.kind, GroupOf(r.path), st)]
    /\ \E cut \in SUBSET {task[t].path : t \in {u \in DOMAIN task : At(u, "sending")}} :
          /\ \A p \in cut : "put" \in Faults /\ ~Blocked(p)
          /\ dst' = [p \in Paths |-> IF p \in cut THEN "part" ELSE Made(cut)[p]]
          /\ broken' = broken \cup cut
    /\ UNCHANGED src

(* SetRetry(0) of a task that is loaded again: it has no group yet.        *)
Reload(t) ==
    /\ At(t, "reload") /\ Goto(t, "queued")
    /\ AddTask(task[t].group, SourceToRemove(task[t].kind, task[t].path))
    /\ UNCHANGED <<src, dst, restarts, broken>>
-----------------------------------------------------------------------------
TaskStep(t) ==
    \/ Submit(t) \/ Run(t) \/ Spawn(t) \/ Listing(t) \/ Put(t) \/ Again(t)
    \/ Report(t) \/ verifyAndRemove(t) \/ VisitMember(t) \/ LeaveDir(t)
    \/ FinishHook(t) \/ Reload(t)

Next ==
    \/ \E p \in Roots, kind \in Kinds : transfer(p, kind)
    \/ \E t \in DOMAIN task : TaskStep(t) \/ Retry(t)
    \/ Restart

Spec == Init /\ [][Next]_vars

(* The managers run every task they hold, and every goroutine runs on.     *)
Fairness == \A t \in 1..MaxTasks : WF_vars(TaskStep(t))

FairSpec == Spec /\ Fairness
-----------------------------------------------------------------------------
States == Counted \cup {"hook", "walk", "done", "failed", "reload", "lost"}

(* Every variable keeps its type.                                          *)
TypeOK ==
    /\ src \subseteq Paths
    /\ dst \in [Paths -> {"none", "old", "own", "part", "dir"}]
    /\ task \in Seq([path : Paths, kind : Kinds, group : Groups, st : States,
                     todo : SUBSET Members, work : SUBSET Paths, bad : BOOLEAN,
                     tries : 0..MaxRetry])
    /\ pending \in [Groups -> 0..MaxTasks]
    /\ hasSuccess \in [Groups -> BOOLEAN]
    /\ payloads \in [Groups -> SUBSET Paths]
    /\ restarts \in 0..MaxRestarts
    /\ broken \subseteq Files

(* The number of tasks a group waits for is the number of its tasks that   *)
(* have not reported: a group neither ends under a task nor outlives all.  *)
PendingCounts ==
    \A g \in Groups :
       pending[g] = Cardinality({t \in DOMAIN task :
                                    task[t].group = g /\ task[t].st \in Counted})

(* What a group is to remove is noted while the group exists, so that no   *)
(* payload is left behind for a later group of the same directory.         *)
PayloadHasGroup == \A g \in Groups : pending[g] = 0 => payloads[g] = {}

(* No file is lost: what the source no longer holds, the destination has,  *)
(* and it is that file.  (It does not hold: verifyAndRemove only looks     *)
(* whether there is an entry of that name.)                                *)
NoLoss == \A f \in Files : f \in src \/ dst[f] = "own"

(* A file is lost only by a failure that concerns it: when verifyAndRemove *)
(* has taken it from the source and the destination has not got it, then   *)
(* its last upload, or the listing of its directory, failed while the      *)
(* destination had another file there, an older one or one cut short.      *)
LossNeedsFailure == \A f \in Files : f \in src \/ dst[f] = "own" \/ f \in broken

(* A copy takes nothing away: only a move removes from the source.         *)
CopyKeepsSource ==
    \A p \in Roots : Below(p) \subseteq src
                     \/ \E t \in DOMAIN task :
                           task[t].kind = "move" /\ task[t].path \in Below(p)

(* A move of which nothing fails takes every file from the source in the   *)
(* end, whatever other requests share its group.  (Two moves of the same   *)
(* directory at once may leave it behind, empty: each finds entries gone   *)
(* that the other one removed.)                                            *)
MoveEmptiesSource ==
    \A p \in Roots :
       (\E t \in 1..MaxTasks : At(t, "queued") /\ task[t].path = p
                               /\ task[t].kind = "move")
          ~> Below(p) \cap Files \cap src = {}
=============================================================================
