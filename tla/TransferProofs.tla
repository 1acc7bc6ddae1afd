--------------------------- MODULE TransferProofs ---------------------------
(***************************************************************************)
(* Proofs about Transfer, for every tree of one level, every mix of        *)
(* requests, every fault and any number of tasks, retries and restarts:    *)
(* the count of a group is exact, a copy takes nothing away, and no file   *)
(* is lost but by a failure that concerns it.                              *)
(***************************************************************************)
EXTENDS Transfer, FiniteSetTheorems, TLAPS

Task == [path : Paths, kind : Kinds, group : Groups, st : States,
         todo : SUBSET Members, work : SUBSET Paths, bad : BOOLEAN, tries : Nat]

Types ==
    /\ src \subseteq Paths
    /\ dst \in [Paths -> {"none", "old", "own", "part", "dir"}]
    /\ task \in Seq(Task)
    /\ pending \in [Groups -> Nat]
    /\ hasSuccess \in [Groups -> BOOLEAN]
    /\ payloads \in [Groups -> SUBSET Paths]
    /\ broken \subseteq Files

(* The tasks a group waits for.                                            *)
Waits(g) == {t \in DOMAIN task : task[t].group = g /\ task[t].st \in Counted}

(* An entry that some move is about.                                       *)
Moved(p) == \E t \in DOMAIN task : task[t].kind = "move" /\ task[t].path = p

(* Only what is to be moved is ever noted for removal, or being removed.   *)
RemovesMoved ==
    /\ \A g \in Groups : \A p \in payloads[g] : Moved(p)
    /\ \A t \in DOMAIN task : \A p \in task[t].work : Moved(p)

(* What is missing from the source was moved, or its directory was.        *)
GoneWasMoved ==
    \A p \in Paths \ src : Moved(p) \/ (p \in Members /\ Moved(Dir))

(* A walk is about the directory, and still has to visit every member that *)
(* the source holds.                                                       *)
Walks ==
    \A t \in DOMAIN task :
       /\ task[t].st = "walk" => Dir \in task[t].work /\ Members \cap src \subseteq task[t].todo
       /\ task[t].st = "sending" => task[t].path # Dir
       /\ task[t].st = "listing" => task[t].path = Dir
       /\ task[t].st = "added" => task[t].group = "top"

(* The destination makes no directory but Dir, and no file is lost but by  *)
(* a failure.                                                              *)
Destination ==
    /\ \A p \in Paths : dst[p] = "dir" => p = Dir
    /\ dst[Dir] \in {"none", "dir", "old"}
    /\ LossNeedsFailure

(* The source of f may go as soon as the destination has an entry for it:  *)
(* that is f itself, or what is lost then has a cause.                     *)
Settled(f) ==
    \/ f \in broken
    \/ dst[f] \in {"none", "own"} /\ ~(f \in Members /\ dst[Dir] = "old")

(* The task r of group g is yet to transfer f, or to make a task for it.   *)
Covers(r, g, f) ==
    /\ r.group = g
    /\ \/ r.path = f /\ r.st \in {"queued", "sending"}
       \/ /\ r.path = Dir /\ r.kind = "move" /\ f \in Members
          /\ r.st = "queued" \/ (r.st = "listing" /\ f \in r.todo)

(* What a group will remove is settled, or some task of the group will     *)
(* see to it; what is being removed is settled.                            *)
Covered ==
    /\ \A g \in Groups : \A p \in payloads[g] : \A f \in Below(p) \cap Files \cap src :
          Settled(f) \/ \E t \in DOMAIN task : Covers(task[t], g, f)
    /\ \A t \in DOMAIN task : \A p \in task[t].work :
          \A f \in Below(p) \cap Files \cap src : Settled(f)

TInv == /\ Types /\ PendingCounts /\ RemovesMoved /\ GoneWasMoved /\ Walks
        /\ Destination /\ Covered
-----------------------------------------------------------------------------
(* The tasks.                                                              *)

(* Replacing a task by one for the same entry and of the same kind.        *)
LEMMA TaskReplaced ==
  ASSUME Types, NEW t \in DOMAIN task, NEW r \in Task,
         r.path = task[t].path, r.kind = task[t].kind,
         task' = [task EXCEPT ![t] = r]
  PROVE  /\ task' \in Seq(Task)
         /\ DOMAIN task' = DOMAIN task
         /\ task'[t] = r
         /\ \A u \in DOMAIN task : u # t => task'[u] = task[u]
         /\ \A p : Moved(p) <=> Moved(p)'
<1>1. task \in Seq(Task) /\ DOMAIN task = 1 .. Len(task) /\ Len(task) \in Nat
  BY DEF Types
<1>2. task' \in Seq(Task) /\ DOMAIN task' = DOMAIN task
  BY <1>1
<1>3. task'[t] = r /\ \A u \in DOMAIN task : u # t => task'[u] = task[u]
  BY <1>1
<1>4. \A p : Moved(p) <=> Moved(p)'
  BY <1>2, <1>3 DEF Moved
<1> QED
  BY <1>2, <1>3, <1>4

(* Adding one.                                                             *)
LEMMA TaskAdded ==
  ASSUME NEW s \in Seq(Task), NEW r \in Task
  PROVE  /\ Append(s, r) \in Seq(Task)
         /\ DOMAIN Append(s, r) = DOMAIN s \cup {Len(s) + 1}
         /\ Len(s) + 1 \notin DOMAIN s
         /\ Append(s, r)[Len(s) + 1] = r
         /\ \A u \in DOMAIN s : Append(s, r)[u] = s[u]
OBVIOUS

(* The tasks of a group are finitely many.                                 *)
LEMMA WaitsFinite ==
  ASSUME Types, NEW g
  PROVE  IsFiniteSet(Waits(g))
<1>1. DOMAIN task = 1 .. Len(task) /\ Len(task) \in Nat
  BY DEF Types
<1>2. IsFiniteSet(1 .. Len(task))
  BY <1>1, FS_Interval
<1> QED
  BY <1>1, <1>2, FS_Subset, Zenon DEF Waits

(* The members of the tree.                                                *)
LEMMA Tree ==
  /\ Dir \in Paths /\ Dir \notin Files /\ Dir \notin Members
  /\ Paths = Files \cup {Dir} /\ Members \subseteq Files
  /\ \A p \in Paths : p # Dir => Below(p) = {p} /\ p \in Files
  /\ Below(Dir) = Members \cup {Dir}
BY TransferAssumption DEF Paths, Files, Below
-----------------------------------------------------------------------------
(* Counting.  A group's tasks and its count move together.                 *)

(* The tasks a group waits for may stay the same, gain one or lose one.    *)
LEMMA CountMoves ==
  ASSUME Types, PendingCounts, NEW g \in Groups, NEW u
  PROVE  /\ Waits(g)' = Waits(g) => Cardinality(Waits(g)') = pending[g]
         /\ u \notin Waits(g) /\ Waits(g)' = Waits(g) \cup {u}
               => Cardinality(Waits(g)') = pending[g] + 1
         /\ u \in Waits(g) /\ Waits(g)' = Waits(g) \ {u}
               => pending[g] # 0 /\ Cardinality(Waits(g)') = pending[g] - 1
<1>1. IsFiniteSet(Waits(g)) /\ pending[g] = Cardinality(Waits(g))
  BY WaitsFinite DEF PendingCounts, Waits
<1>2. pending[g] \in Nat
  BY DEF Types
<1>3. u \notin Waits(g) => Cardinality(Waits(g) \cup {u}) = pending[g] + 1
  BY <1>1, FS_AddElement
<1>4. u \in Waits(g) => Cardinality(Waits(g) \ {u}) = pending[g] - 1
  BY <1>1, FS_RemoveElement
<1>5. u \in Waits(g) => pending[g] # 0
  BY <1>1, FS_EmptySet
<1> QED
  BY <1>1, <1>3, <1>4, <1>5

(* A step that counts nobody in or out.                                    *)
LEMMA CountStays ==
  ASSUME Types, PendingCounts, NEW t \in DOMAIN task, NEW r \in Task,
         DOMAIN task' = DOMAIN task, task'[t] = r,
         \A u \in DOMAIN task : u # t => task'[u] = task[u],
         r.st \in Counted <=> task[t].st \in Counted,
         r.st \in Counted => r.group = task[t].group,
         pending' = pending
  PROVE  PendingCounts'
<1>1. \A g \in Groups : Waits(g)' = Waits(g)
  BY DEF Waits
<1>2. \A g \in Groups : Cardinality(Waits(g)') = pending[g]
  BY <1>1, CountMoves
<1> QED
  BY <1>2 DEF PendingCounts, Waits

(* A task that was not counted joins a group (AddTask).                    *)
LEMMA CountJoins ==
  ASSUME Types, PendingCounts, NEW t \in DOMAIN task, NEW r \in Task,
         DOMAIN task' = DOMAIN task, task'[t] = r,
         \A u \in DOMAIN task : u # t => task'[u] = task[u],
         task[t].st \notin Counted, r.st \in Counted,
         pending' = [pending EXCEPT ![r.group] = @ + 1]
  PROVE  PendingCounts'
<1>1. \A g \in Groups : g # r.group => Waits(g)' = Waits(g)
  BY DEF Waits
<1>2. t \notin Waits(r.group) /\ Waits(r.group)' = Waits(r.group) \cup {t}
  BY DEF Waits
<1>3. r.group \in Groups /\ pending \in [Groups -> Nat]
  BY DEF Task, Types
<1>4. \A g \in Groups : pending'[g] = Cardinality(Waits(g)')
  <2> SUFFICES ASSUME NEW g \in Groups PROVE pending'[g] = Cardinality(Waits(g)')
    OBVIOUS
  <2>1. CASE g = r.group
    <3>1. Cardinality(Waits(g)') = pending[g] + 1
      BY <1>2, <2>1, CountMoves
    <3> QED
      BY <1>3, <2>1, <3>1
  <2>2. CASE g # r.group
    <3>1. Cardinality(Waits(g)') = pending[g]
      BY <1>1, <2>2, CountMoves
    <3> QED
      BY <1>3, <2>2, <3>1
  <2> QED
    BY <2>1, <2>2
<1> QED
  BY <1>4 DEF PendingCounts, Waits

(* A task that was counted leaves its group (Done).                        *)
LEMMA CountLeaves ==
  ASSUME Types, PendingCounts, NEW t \in DOMAIN task, NEW r \in Task,
         NEW success \in BOOLEAN,
         DOMAIN task' = DOMAIN task, task'[t] = r,
         \A u \in DOMAIN task : u # t => task'[u] = task[u],
         task[t].st \in Counted, r.st \notin Counted,
         Done(task[t].group, success)
  PROVE  /\ PendingCounts'
         /\ pending' \in [Groups -> Nat]
         /\ hasSuccess' \in [Groups -> BOOLEAN]
         /\ \A g \in Groups : payloads'[g] \subseteq payloads[g]
         /\ payloads' \in [Groups -> SUBSET Paths]
<1>t. task[t] \in Task
  BY DEF Types
<1> PICK h \in Groups : h = task[t].group
  BY <1>t DEF Task
<1>0. h \in Groups /\ task'[t].group = r.group
  OBVIOUS
<1>1. \A g \in Groups : g # h => Waits(g)' = Waits(g)
  BY DEF Waits
<1>2. t \in Waits(h) /\ Waits(h)' = Waits(h) \ {t}
  BY DEF Waits
<1>3. pending[h] # 0 /\ Cardinality(Waits(h)') = pending[h] - 1
  BY <1>0, <1>2, CountMoves
<1>4. pending \in [Groups -> Nat] /\ hasSuccess \in [Groups -> BOOLEAN]
      /\ payloads \in [Groups -> SUBSET Paths]
  BY DEF Types
<1>5. /\ pending' = [pending EXCEPT ![h] = pending[h] - 1]
      /\ hasSuccess' \in [Groups -> BOOLEAN]
      /\ payloads' = payloads \/ payloads' = [payloads EXCEPT ![h] = {}]
  <2>1. Done(h, success)
    OBVIOUS
  <2>2. CASE pending[h] = 1
    <3>1. /\ pending' = [pending EXCEPT ![h] = 0]
          /\ hasSuccess' = [hasSuccess EXCEPT ![h] = FALSE]
          /\ payloads' = [payloads EXCEPT ![h] = {}]
      BY <2>1, <2>2 DEF Done
    <3>2. pending[h] - 1 = 0
      BY <2>2
    <3> QED
      BY <1>4, <3>1, <3>2, Zenon
  <2>3. CASE pending[h] # 1
    <3>1. pending' = [pending EXCEPT ![h] = pending[h] - 1] /\ payloads' = payloads
      BY <1>0, <1>3, <1>4, <2>1, <2>3 DEF Done
    <3>2. hasSuccess' = [hasSuccess EXCEPT ![h] = hasSuccess[h] \/ success]
      BY <1>0, <1>3, <2>1, <2>3 DEF Done
    <3>3. (hasSuccess[h] \/ success) \in BOOLEAN
      BY Zenon
    <3> QED
      BY <1>4, <3>1, <3>2, <3>3, Zenon
  <2> QED
    BY <2>2, <2>3
<1>6. \A g \in Groups : pending'[g] = Cardinality(Waits(g)')
  <2> SUFFICES ASSUME NEW g \in Groups PROVE pending'[g] = Cardinality(Waits(g)')
    OBVIOUS
  <2>1. CASE g = h
    BY <1>0, <1>3, <1>4, <1>5, <2>1
  <2>2. CASE g # h
    <3>1. Cardinality(Waits(g)') = pending[g]
      BY <1>1, <2>2, CountMoves
    <3> QED
      BY <1>4, <1>5, <2>2, <3>1
  <2> QED
    BY <2>1, <2>2
<1>7. PendingCounts'
  BY <1>6 DEF PendingCounts, Waits
<1>8. pending' \in [Groups -> Nat]
  BY <1>0, <1>3, <1>4, <1>5
<1>9. payloads' \in [Groups -> SUBSET Paths] /\ \A g \in Groups : payloads'[g] \subseteq payloads[g]
  BY <1>0, <1>4, <1>5
<1> QED
  BY <1>5, <1>7, <1>8, <1>9
-----------------------------------------------------------------------------
(* What is settled.                                                        *)

(* It stays so while the destination stays and no failure is taken back.   *)
LEMMA StillSettled ==
  ASSUME dst' = dst, broken \subseteq broken'
  PROVE  \A f : Settled(f) => Settled(f)'
BY DEF Settled

(* After a failed task for p, every file of p is settled.                  *)
LEMMA FailureSettles ==
  ASSUME dst' \in [Paths -> {"none", "old", "own", "part", "dir"}],
         \A q \in Paths : dst'[q] = "dir" => q = Dir,
         NEW p \in Paths, broken' = broken \cup Spoilt(p, dst')
  PROVE  \A f \in Below(p) \cap Files : Settled(f)'
<1> SUFFICES ASSUME NEW f \in Below(p) \cap Files PROVE Settled(f)'
  OBVIOUS
<1>1. f \in Paths /\ f # Dir
  BY Tree
<1>2. dst'[f] \in {"none", "old", "own", "part"}
  BY <1>1
<1> QED
  BY <1>2 DEF Settled, Spoilt

(* What a step of a task t has to meet for that, when r is what becomes of *)
(* the task.                                                               *)
Keeps(t, r) ==
    /\ \A f \in Files : Settled(f) => Settled(f)'
    /\ \A g \in Groups : \A f \in Files \cap src :
          Covers(task[t], g, f) => Settled(f)' \/ Covers(r, g, f)
    /\ \A g \in Groups : \A p \in payloads'[g] :
          p \in payloads[g] \/ \A f \in Below(p) \cap Files : Covers(r, g, f)
    /\ \A p \in r.work :
          p \in task[t].work \/ \A f \in Below(p) \cap Files \cap src : Settled(f)

(* A step that meets it keeps what is to be removed covered.               *)
LEMMA CoveredStep ==
  ASSUME TInv, NEW t \in DOMAIN task, NEW r, DOMAIN task' = DOMAIN task, task'[t] = r,
         \A u \in DOMAIN task : u # t => task'[u] = task[u],
         src' \subseteq src, Keeps(t, r)
  PROVE  Covered'
<1>1. ASSUME NEW g \in Groups, NEW p \in payloads'[g],
             NEW f \in Below(p) \cap Files \cap src'
      PROVE  Settled(f)' \/ \E u \in DOMAIN task' : Covers(task'[u], g, f)
  <2>1. f \in Below(p) /\ f \in Files /\ f \in src
    OBVIOUS
  <2>2. CASE \A q \in Below(p) \cap Files : Covers(r, g, q)
    BY <2>1, <2>2
  <2>3. CASE p \in payloads[g]
    <3>1. Settled(f) \/ \E u \in DOMAIN task : Covers(task[u], g, f)
      BY <2>1, <2>3, Zenon DEF TInv, Covered
    <3>2. CASE Settled(f)
      BY <2>1, <3>2 DEF Keeps
    <3>3. ASSUME NEW u \in DOMAIN task, Covers(task[u], g, f)
          PROVE  Settled(f)' \/ \E v \in DOMAIN task' : Covers(task'[v], g, f)
      <4>1. CASE u = t
        BY <2>1, <3>3, <4>1, Zenon DEF Keeps
      <4>2. CASE u # t
        BY <3>3, <4>2, Zenon
      <4> QED
        BY <4>1, <4>2
    <3> QED
      BY <3>1, <3>2, <3>3
  <2> QED
    BY <2>2, <2>3, Zenon DEF Keeps
<1>2. ASSUME NEW u \in DOMAIN task', NEW p \in task'[u].work,
             NEW f \in Below(p) \cap Files \cap src'
      PROVE  Settled(f)'
  <2>1. f \in Below(p) /\ f \in Files /\ f \in src
    OBVIOUS
  <2>2. Settled(f)
    <3>1. CASE u # t
      BY <2>1, <3>1, Zenon DEF TInv, Covered
    <3>2. CASE u = t
      BY <2>1, <3>2, Zenon DEF TInv, Covered, Keeps
    <3> QED
      BY <3>1, <3>2
  <2> QED
    BY <2>1, <2>2 DEF Keeps
<1> QED
  BY <1>1, <1>2, Zenon DEF Covered
-----------------------------------------------------------------------------
(* The steps.  What a step of one task has to meet besides the counting,   *)
(* when r is what becomes of the task.                                     *)
StepMeets(r) ==
    /\ pending' \in [Groups -> Nat] /\ hasSuccess' \in [Groups -> BOOLEAN]
    /\ payloads' \in [Groups -> SUBSET Paths]
    /\ \A g \in Groups : \A p \in payloads'[g] : Moved(p)
    /\ \A p \in r.work : Moved(p)
    /\ src' \subseteq src
    /\ \A p \in src \ src' : Moved(p) \/ (p \in Members /\ Moved(Dir))
    /\ r.st = "walk" => Dir \in r.work /\ Members \cap src' \subseteq r.todo
    /\ r.st = "sending" => r.path # Dir
    /\ r.st = "listing" => r.path = Dir
    /\ r.st # "added"
    /\ dst' \in [Paths -> {"none", "old", "own", "part", "dir"}]
    /\ broken' \subseteq Files
    /\ Destination'

(* A step of one task that meets this keeps the invariant.                 *)
LEMMA OneTask ==
  ASSUME TInv, NEW t \in DOMAIN task, NEW r \in Task,
         r.path = task[t].path, r.kind = task[t].kind,
         task' = [task EXCEPT ![t] = r],
         PendingCounts', StepMeets(r), Keeps(t, r)
  PROVE  TInv'
<1>0. Types
  BY DEF TInv
<1>1. /\ task' \in Seq(Task)
      /\ DOMAIN task' = DOMAIN task
      /\ task'[t] = r
      /\ \A u \in DOMAIN task : u # t => task'[u] = task[u]
      /\ \A p : Moved(p) <=> Moved(p)'
  BY <1>0, TaskReplaced
<1>2. Types'
  BY <1>0, <1>1, Zenon DEF Types, StepMeets
<1>3. RemovesMoved'
  BY <1>1, Zenon DEF TInv, RemovesMoved, StepMeets
<1>4. GoneWasMoved'
  BY <1>1, Zenon DEF TInv, GoneWasMoved, StepMeets
<1>5. Walks'
  BY <1>1 DEF TInv, Walks, StepMeets
<1>6. src' \subseteq src
  BY DEF StepMeets
<1>7. Covered'
  BY <1>1, <1>6, CoveredStep
<1> QED
  BY <1>2, <1>3, <1>4, <1>5, <1>7, Zenon DEF TInv, StepMeets

(* A step of one task that changes neither group nor storage.              *)
LEMMA QuietTask ==
  ASSUME TInv, NEW t \in DOMAIN task, NEW r \in Task,
         r.path = task[t].path, r.kind = task[t].kind,
         task' = [task EXCEPT ![t] = r], UNCHANGED <<src, dst, group>>,
         broken \subseteq broken', broken' \subseteq Files,
         r.st \in Counted <=> task[t].st \in Counted,
         r.st \in Counted => r.group = task[t].group,
         r.work \subseteq task[t].work,
         r.st = "walk" => Dir \in r.work /\ Members \cap src \subseteq r.todo,
         r.st = "sending" => r.path # Dir, r.st = "listing" => r.path = Dir,
         r.st # "added",
         \A g \in Groups : \A f \in Files \cap src :
            Covers(task[t], g, f) => Settled(f)' \/ Covers(r, g, f)
  PROVE  TInv'
<1>0. Types /\ PendingCounts
  BY DEF TInv
<1>1. /\ DOMAIN task' = DOMAIN task
      /\ task'[t] = r
      /\ \A u \in DOMAIN task : u # t => task'[u] = task[u]
  BY <1>0, TaskReplaced
<1>2. /\ src' = src /\ dst' = dst /\ pending' = pending
      /\ hasSuccess' = hasSuccess /\ payloads' = payloads
  BY DEF group
<1>3. PendingCounts'
  BY <1>0, <1>1, <1>2, CountStays
<1>4. Destination'
  BY <1>2, Zenon DEF TInv, Destination, LossNeedsFailure
<1>5. StepMeets(r)
  BY <1>0, <1>2, <1>4 DEF TInv, Types, RemovesMoved, StepMeets
<1>6. \A f : Settled(f) => Settled(f)'
  BY <1>2, StillSettled
<1>7. Keeps(t, r)
  BY <1>2, <1>6, Zenon DEF Keeps
<1> QED
  BY <1>3, <1>5, <1>7, OneTask

(* A task that is updated field by field is replaced.                      *)
LEMMA Fields ==
  ASSUME Types, NEW t \in DOMAIN task
  PROVE  /\ task[t] \in Task
         /\ \A st \in States : Goto(t, st) =>
               task' = [task EXCEPT ![t] = [task[t] EXCEPT !.st = st]]
         /\ \A st \in States, todo \in SUBSET Members, work \in SUBSET Paths,
               g \in Groups, bad \in BOOLEAN, tries \in Nat :
               [path |-> task[t].path, kind |-> task[t].kind, group |-> g, st |-> st,
                todo |-> todo, work |-> work, bad |-> bad, tries |-> tries] \in Task
<1>1. task[t] \in Task
  BY DEF Types
<1> QED
  BY <1>1 DEF Task, Goto

(* A step that only moves a task from one state to another.                *)
LEMMA QuietGoto ==
  ASSUME TInv, NEW t \in DOMAIN task, NEW st \in States, Goto(t, st),
         UNCHANGED <<src, dst, group>>,
         broken \subseteq broken', broken' \subseteq Files,
         st \in Counted <=> task[t].st \in Counted,
         st \notin {"walk", "listing", "added"}, st = "sending" => task[t].path # Dir,
         \A f \in Files \cap src :
            Covers(task[t], task[t].group, f)
               => Settled(f)' \/ (task[t].path = f /\ st = "sending")
  PROVE  TInv'
<1> PICK r : r = [task[t] EXCEPT !.st = st]
  OBVIOUS
<1>0. Types
  BY DEF TInv
<1>1. task[t] \in Task /\ task' = [task EXCEPT ![t] = r]
  BY <1>0, Fields
<1>2. /\ r \in Task /\ r.path = task[t].path /\ r.kind = task[t].kind
      /\ r.group = task[t].group /\ r.st = st /\ r.work = task[t].work
  BY <1>1 DEF Task
<1>3. \A g \in Groups : \A f \in Files \cap src :
         Covers(task[t], g, f) => Settled(f)' \/ Covers(r, g, f)
  <2> SUFFICES ASSUME NEW g \in Groups, NEW f \in Files \cap src, Covers(task[t], g, f)
               PROVE  Settled(f)' \/ Covers(r, g, f)
    OBVIOUS
  <2>1. g = task[t].group
    BY DEF Covers
  <2>2. Settled(f)' \/ (task[t].path = f /\ st = "sending")
    BY <2>1
  <2> QED
    BY <1>2, <2>1, <2>2 DEF Covers
<1>4. /\ r.st \in Counted <=> task[t].st \in Counted
      /\ r.st \in Counted => r.group = task[t].group
      /\ r.work \subseteq task[t].work
      /\ r.st = "walk" => Dir \in r.work /\ Members \cap src \subseteq r.todo
      /\ r.st = "sending" => r.path # Dir
      /\ r.st = "listing" => r.path = Dir
      /\ r.st # "added"
  BY <1>2
<1> QED
  BY <1>1, <1>2, <1>3, <1>4, QuietTask, Zenon

(* A task fails: what it was to see to is settled.                         *)
LEMMA FailStep ==
  ASSUME TInv, NEW t \in DOMAIN task, task[t].st \in {"queued", "listing"},
         task[t].st = "listing" => task[t].path = Dir,
         Goto(t, "bad"), UNCHANGED <<src, dst, group>>,
         broken' = broken \cup Spoilt(task[t].path, dst)
  PROVE  TInv'
<1>1. Types /\ task[t] \in Task
  BY Fields DEF TInv
<1> PICK p \in Paths : p = task[t].path
  BY <1>1 DEF Task
<1>2. broken \subseteq broken' /\ broken' \subseteq Files
  BY <1>1 DEF Types, Spoilt
<1>3. dst' = dst /\ broken' = broken \cup Spoilt(p, dst')
  OBVIOUS
<1>4. /\ dst' \in [Paths -> {"none", "old", "own", "part", "dir"}]
      /\ \A q \in Paths : dst'[q] = "dir" => q = Dir
  BY <1>1, <1>3 DEF TInv, Types, Destination
<1>5. \A f \in Below(p) \cap Files : Settled(f)'
  BY <1>3, <1>4, FailureSettles
<1>6. \A f \in Files \cap src : Covers(task[t], task[t].group, f) => f \in Below(p)
  BY Tree DEF Covers
<1> QED
  BY <1>2, <1>5, <1>6, QuietGoto DEF States, Counted

(* Run.                                                                    *)
LEMMA RunStep ==
  ASSUME TInv, NEW t \in DOMAIN task, Run(t)
  PROVE  TInv'
<1>0. Types /\ task[t].st = "queued" /\ UNCHANGED <<src, dst, group>>
  BY DEF TInv, Run, At
<1>b. broken \subseteq Files
  BY <1>0 DEF Types
<1>1. CASE Goto(t, "bad") /\ broken' = broken \cup Spoilt(task[t].path, dst)
  BY <1>0, <1>1, FailStep
<1>2. CASE /\ task' = [task EXCEPT ![t].st = "listing", ![t].todo = Listed(task[t].kind)]
           /\ broken' = broken /\ task[t].path = Dir
  <2> PICK r : r = [task[t] EXCEPT !.st = "listing", !.todo = Listed(task[t].kind)]
    OBVIOUS
  <2>1. task[t] \in Task
    BY <1>0, Fields
  <2>2. Listed(task[t].kind) \in SUBSET Members
    BY DEF Listed
  <2>3. /\ r \in Task /\ r.path = task[t].path /\ r.kind = task[t].kind
        /\ r.group = task[t].group /\ r.st = "listing" /\ r.work = task[t].work
        /\ r.todo = Listed(task[t].kind)
    BY <2>1, <2>2 DEF Task, States, Counted
  <2>4. task' = [task EXCEPT ![t] = r]
    BY <1>2
  <2>5. ASSUME NEW g \in Groups, NEW f \in Files \cap src, Covers(task[t], g, f)
        PROVE  Covers(r, g, f)
    <3>1. f # Dir
      BY Tree
    <3>2. r.group = g /\ r.kind = "move" /\ f \in Members \cap src
      BY <1>0, <1>2, <2>3, <2>5, <3>1 DEF Covers
    <3>3. f \in r.todo
      BY <2>3, <3>2 DEF Listed
    <3> QED
      BY <1>2, <2>3, <3>2, <3>3 DEF Covers
  <2>6. \A g \in Groups : \A f \in Files \cap src :
           Covers(task[t], g, f) => Settled(f)' \/ Covers(r, g, f)
    BY <2>5
  <2>7. broken \subseteq broken' /\ broken' \subseteq Files
    BY <1>b, <1>2
  <2>8. /\ r.st \in Counted <=> task[t].st \in Counted
        /\ r.st \in Counted => r.group = task[t].group
        /\ r.work \subseteq task[t].work
        /\ r.st # "walk" /\ r.st # "sending" /\ r.st # "added" /\ r.path = Dir
    BY <1>0, <1>2, <2>3 DEF Counted
  <2> QED
    BY <1>0, <2>3, <2>4, <2>6, <2>7, <2>8, QuietTask, Zenon
<1>3. CASE task[t].path # Dir /\ Goto(t, "sending") /\ broken' = broken
  <2>1. \A f \in Files \cap src :
           Covers(task[t], task[t].group, f) => task[t].path = f
    BY <1>3 DEF Covers
  <2>2. broken \subseteq broken' /\ broken' \subseteq Files
    BY <1>b, <1>3
  <2> QED
    BY <1>0, <1>3, <2>1, <2>2, QuietGoto DEF States, Counted
<1> QED
  BY <1>1, <1>2, <1>3 DEF Run

(* A directory task ends.                                                  *)
LEMMA ListingStep ==
  ASSUME TInv, NEW t \in DOMAIN task, Listing(t)
  PROVE  TInv'
<1>0. /\ task[t].st = "listing" /\ UNCHANGED <<src, dst, group>>
      /\ \/ task[t].todo = {} /\ Goto(t, "ok") /\ broken' = broken
         \/ Goto(t, "bad") /\ broken' = broken \cup Spoilt(Dir, dst)
  BY DEF Listing, At
<1>1. Types /\ task[t].path = Dir
  BY <1>0 DEF TInv, Walks
<1>2. CASE task[t].todo = {} /\ Goto(t, "ok") /\ broken' = broken
  <2>1. \A f \in Files \cap src : ~Covers(task[t], task[t].group, f)
    BY <1>0, <1>2 DEF Covers
  <2>2. broken \subseteq broken' /\ broken' \subseteq Files
    BY <1>1, <1>2 DEF Types
  <2> QED
    BY <1>0, <1>2, <2>1, <2>2, QuietGoto DEF States, Counted
<1>3. CASE Goto(t, "bad") /\ broken' = broken \cup Spoilt(Dir, dst)
  BY <1>0, <1>1, <1>3, FailStep
<1> QED
  BY <1>0, <1>2, <1>3

(* The manager runs a failed task again.                                   *)
LEMMA AgainStep ==
  ASSUME TInv, NEW t \in DOMAIN task, Again(t)
  PROVE  TInv'
<1>0. /\ Types /\ task[t] \in Task /\ task[t].st = "bad" /\ UNCHANGED <<src, dst, group>>
      /\ task' = [task EXCEPT ![t].st = "queued", ![t].tries = @ + 1] /\ broken' = broken
  BY Fields DEF TInv, Again, At
<1> PICK r : r = [task[t] EXCEPT !.st = "queued", !.tries = task[t].tries + 1]
  OBVIOUS
<1>1. /\ r \in Task /\ r.path = task[t].path /\ r.kind = task[t].kind
      /\ r.group = task[t].group /\ r.st = "queued" /\ r.work = task[t].work
  BY <1>0 DEF Task, States, Counted
<1>2. task' = [task EXCEPT ![t] = r]
  BY <1>0
<1>3. \A g, f : ~Covers(task[t], g, f)
  BY <1>0 DEF Covers
<1>4. broken \subseteq broken' /\ broken' \subseteq Files
  BY <1>0 DEF Types
<1>5. /\ r.st \in Counted <=> task[t].st \in Counted
      /\ r.st \in Counted => r.group = task[t].group
      /\ r.work \subseteq task[t].work
      /\ r.st # "walk" /\ r.st # "sending" /\ r.st # "listing" /\ r.st # "added"
  BY <1>0, <1>1 DEF Counted
<1> QED
  BY <1>0, <1>1, <1>2, <1>3, <1>4, <1>5, QuietTask, Zenon

(* HookAndRemove is over.                                                  *)
LEMMA FinishHookStep ==
  ASSUME TInv, NEW t \in DOMAIN task, FinishHook(t)
  PROVE  TInv'
<1> PICK st : st = IF task[t].bad THEN "failed" ELSE "done"
  OBVIOUS
<1>1. /\ task[t].st = "hook" /\ UNCHANGED <<src, dst, group>> /\ Goto(t, st)
      /\ broken' = broken
  BY DEF FinishHook, EndHook, Goto, At
<1>2. broken \subseteq broken' /\ broken' \subseteq Files
  BY <1>1 DEF TInv, Types
<1>3. \A f : ~Covers(task[t], task[t].group, f)
  BY <1>1 DEF Covers
<1> QED
  BY <1>1, <1>2, <1>3, QuietGoto DEF States, Counted

(* A removal, or the end of a report: the task covers nothing, and it has  *)
(* no more to remove than it had.                                          *)
LEMMA Removing ==
  ASSUME TInv, NEW t \in DOMAIN task, NEW r, UNCHANGED <<dst, group, broken>>,
         task[t].st \in {"hook", "walk"}, r.work \subseteq task[t].work
  PROVE  Keeps(t, r)
<1>1. dst' = dst /\ payloads' = payloads /\ broken \subseteq broken'
  BY DEF group
<1>2. \A f : Settled(f) => Settled(f)'
  BY <1>1, StillSettled
<1>3. \A g, f : ~Covers(task[t], g, f)
  BY DEF Covers
<1> QED
  BY <1>1, <1>2, <1>3, Zenon DEF Keeps

(* A payload is dropped, with what a change of the source has to meet.     *)
LEMMA PayloadGoes ==
  ASSUME TInv, NEW t \in DOMAIN task, task[t].st = "hook", NEW p,
         task' = NextPayload(t, p), UNCHANGED <<dst, group, broken>>,
         src' \subseteq src,
         \A q \in src \ src' : Moved(q) \/ (q \in Members /\ Moved(Dir)),
         Destination'
  PROVE  TInv'
<1>0. Types /\ PendingCounts
  BY DEF TInv
<1>1. task[t] \in Task
  BY <1>0, Fields
<1> PICK r : r = [task[t] EXCEPT !.work = task[t].work \ {p}]
  OBVIOUS
<1>2. /\ r \in Task /\ r.path = task[t].path /\ r.kind = task[t].kind
      /\ r.st = "hook" /\ r.work \subseteq task[t].work
  BY <1>1 DEF Task
<1>3. task' = [task EXCEPT ![t] = r]
  BY DEF NextPayload
<1>4. /\ DOMAIN task' = DOMAIN task
      /\ task'[t] = r
      /\ \A u \in DOMAIN task : u # t => task'[u] = task[u]
  BY <1>0, <1>2, <1>3, TaskReplaced
<1>5. PendingCounts'
  BY <1>0, <1>2, <1>4, CountStays DEF Counted, group
<1>6. StepMeets(r)
  BY <1>0, <1>2 DEF TInv, Types, RemovesMoved, StepMeets, group
<1>7. Keeps(t, r)
  BY <1>2, Removing
<1> QED
  BY <1>2, <1>3, <1>5, <1>6, <1>7, OneTask

(* What the source loses to a removal was moved, and has a cause if it is  *)
(* not in the destination.                                                 *)
LEMMA RemoveMeets ==
  ASSUME TInv, NEW lost \in SUBSET Paths, dst' = dst, broken' = broken,
         src' = src \/ src' = src \ lost,
         \A q \in lost \cap src : q \in Files => dst[q] = "own" \/ q \in broken
  PROVE  src' \subseteq src /\ Destination'
<1>1. src' \subseteq src
  OBVIOUS
<1>2. LossNeedsFailure'
  BY Zenon DEF TInv, Destination, LossNeedsFailure
<1> QED
  BY <1>1, <1>2, Zenon DEF TInv, Destination

(* verifyAndRemove.                                                        *)
LEMMA VerifyStep ==
  ASSUME TInv, NEW t \in DOMAIN task, verifyAndRemove(t)
  PROVE  TInv'
<1>0. /\ Types /\ task[t].st = "hook" /\ UNCHANGED <<dst, group, broken>> /\ dst' = dst
      /\ broken' = broken
  BY DEF TInv, verifyAndRemove, At
<1>1. task[t] \in Task
  BY <1>0, Fields
<1>2. PICK p \in task[t].work :
       \/ task' = NextPayload(t, p) /\ UNCHANGED src
       \/ Verified(p) /\ dst[p] # "dir" /\ Remove(p) /\ task' = NextPayload(t, p)
       \/ /\ Verified(p) /\ dst[p] = "dir"
          /\ task' = [task EXCEPT ![t].st = "walk", ![t].todo = Members \cap src]
          /\ UNCHANGED src
  BY Zenon DEF verifyAndRemove
<1>3. p \in Paths /\ Moved(p)
  BY <1>1 DEF TInv, RemovesMoved, Task
<1>4. CASE task' = NextPayload(t, p) /\ UNCHANGED src
  <2>1. src' \subseteq src /\ Destination'
    BY <1>0, <1>4, Zenon DEF TInv, Destination, LossNeedsFailure
  <2> QED
    BY <1>0, <1>4, <2>1, PayloadGoes
<1>5. CASE Verified(p) /\ dst[p] # "dir" /\ Remove(p) /\ task' = NextPayload(t, p)
  <2>1. Below(p) \subseteq Paths /\ (src' = src \/ src' = src \ Below(p))
    BY <1>3, <1>5, Tree DEF Remove
  <2>2. ASSUME NEW q \in Below(p) \cap src, q \in Files
        PROVE  dst[q] = "own" \/ q \in broken
    <3>1. Settled(q)
      BY <1>2, <2>2 DEF TInv, Covered
    <3>2. CASE p = Dir
      <4>1. dst[Dir] = "old" /\ q \in Members
        BY <1>5, <2>2, <3>2, Tree DEF TInv, Destination, Verified
      <4> QED
        BY <3>1, <4>1 DEF Settled
    <3>3. CASE p # Dir
      <4>1. q = p /\ dst[q] # "none"
        BY <1>3, <1>5, <2>2, <3>3, Tree DEF Verified
      <4> QED
        BY <3>1, <4>1 DEF Settled
    <3> QED
      BY <3>2, <3>3
  <2>3. src' \subseteq src /\ Destination'
    BY <1>0, <2>1, <2>2, RemoveMeets
  <2>4. \A q \in src \ src' : Moved(q) \/ (q \in Members /\ Moved(Dir))
    BY <1>3, <2>1, Tree, Zenon
  <2> QED
    BY <1>0, <1>5, <2>3, <2>4, PayloadGoes
<1>6. CASE /\ Verified(p) /\ dst[p] = "dir"
           /\ task' = [task EXCEPT ![t].st = "walk", ![t].todo = Members \cap src]
           /\ UNCHANGED src
  <2> PICK r : r = [task[t] EXCEPT !.st = "walk", !.todo = Members \cap src]
    OBVIOUS
  <2>1. /\ r \in Task /\ r.path = task[t].path /\ r.kind = task[t].kind
        /\ r.st = "walk" /\ r.work = task[t].work /\ r.todo = Members \cap src
    BY <1>1 DEF Task, States
  <2>2. task' = [task EXCEPT ![t] = r]
    BY <1>6
  <2>3. Dir \in r.work
    BY <1>2, <1>3, <1>6, <2>1, Zenon DEF TInv, Destination
  <2>4. \A g, f : ~Covers(task[t], g, f)
    BY <1>0 DEF Covers
  <2>5. broken \subseteq broken' /\ broken' \subseteq Files
    BY <1>0 DEF Types
  <2>6. /\ r.st \notin Counted /\ task[t].st \notin Counted
        /\ r.work \subseteq task[t].work /\ Members \cap src \subseteq r.todo
        /\ r.st # "sending" /\ r.st # "listing" /\ r.st # "added"
    BY <1>0, <2>1 DEF Counted
  <2>7. UNCHANGED <<src, dst, group>>
    BY <1>0, <1>6
  <2> QED
    BY <2>1, <2>2, <2>3, <2>4, <2>5, <2>6, <2>7, QuietTask, Zenon
<1> QED
  BY <1>2, <1>4, <1>5, <1>6

(* A member is removed on the way through the directory.                   *)
LEMMA VisitStep ==
  ASSUME TInv, NEW t \in DOMAIN task, VisitMember(t)
  PROVE  TInv'
<1>0. /\ Types /\ PendingCounts /\ task[t].st = "walk"
      /\ UNCHANGED <<dst, group, broken>> /\ dst' = dst /\ broken' = broken
  BY DEF TInv, VisitMember, At
<1>1. task[t] \in Task
  BY <1>0, Fields
<1>2. PICK c \in task[t].todo :
        Verified(c) /\ src' = src \ {c} /\ task' = [task EXCEPT ![t].todo = @ \ {c}]
  BY Zenon DEF VisitMember
<1> PICK r : r = [task[t] EXCEPT !.todo = task[t].todo \ {c}]
  OBVIOUS
<1>3. /\ r \in Task /\ r.path = task[t].path /\ r.kind = task[t].kind
      /\ r.st = "walk" /\ r.work = task[t].work /\ r.todo = task[t].todo \ {c}
      /\ r.group = task[t].group
  BY <1>0, <1>1 DEF Task
<1>4. task' = [task EXCEPT ![t] = r]
  BY <1>2
<1>5. c \in Members /\ c \in Paths /\ Dir \in r.work /\ Members \cap src \subseteq task[t].todo
  BY <1>0, <1>1, <1>3, Tree DEF TInv, Walks, Task, Paths
<1>6. /\ DOMAIN task' = DOMAIN task
      /\ task'[t] = r
      /\ \A u \in DOMAIN task : u # t => task'[u] = task[u]
  BY <1>0, <1>3, <1>4, TaskReplaced
<1>7. PendingCounts'
  BY <1>0, <1>3, <1>6, CountStays DEF Counted, group
<1>8. src' \subseteq src /\ Destination'
  <2>1. c \in Below(Dir) \cap Files \cap src /\ dst[c] # "none"
    BY <1>2, <1>5, Tree DEF Verified
  <2>2. Settled(c)
    BY <1>3, <1>5, <2>1 DEF TInv, Covered
  <2>3. dst[c] = "own" \/ c \in broken
    BY <2>1, <2>2 DEF Settled
  <2>4. {c} \in SUBSET Paths /\ \A q \in {c} \cap src : dst[q] = "own" \/ q \in broken
    BY <1>5, <2>3
  <2> QED
    BY <1>0, <1>2, <2>4, RemoveMeets
<1>9. Moved(Dir)
  BY <1>3, <1>5 DEF TInv, RemovesMoved
<1>10. StepMeets(r)
  BY <1>0, <1>2, <1>3, <1>5, <1>8, <1>9 DEF TInv, Types, RemovesMoved, StepMeets, group
<1>11. Keeps(t, r)
  BY <1>0, <1>3, Removing
<1> QED
  BY <1>3, <1>4, <1>7, <1>10, <1>11, OneTask

(* The walk ends, and the directory goes if nothing was left in it.        *)
LEMMA LeaveStep ==
  ASSUME TInv, NEW t \in DOMAIN task, LeaveDir(t)
  PROVE  TInv'
<1>0. /\ Types /\ PendingCounts /\ task[t].st = "walk"
      /\ UNCHANGED <<dst, group, broken>> /\ dst' = dst /\ broken' = broken
  BY DEF TInv, LeaveDir, At
<1>1. task[t] \in Task
  BY <1>0, Fields
<1> PICK r : r = [task[t] EXCEPT !.work = task[t].work \ {Dir}, !.st = "hook", !.todo = {}]
  OBVIOUS
<1>3. /\ r \in Task /\ r.path = task[t].path /\ r.kind = task[t].kind
      /\ r.st = "hook" /\ r.work \subseteq task[t].work
  BY <1>1 DEF Task, States
<1>4. task' = [task EXCEPT ![t] = r]
  BY DEF LeaveDir, NextPayload
<1>5. Moved(Dir)
  BY <1>0 DEF TInv, Walks, RemovesMoved
<1>6. /\ DOMAIN task' = DOMAIN task
      /\ task'[t] = r
      /\ \A u \in DOMAIN task : u # t => task'[u] = task[u]
  BY <1>0, <1>3, <1>4, TaskReplaced
<1>7. PendingCounts'
  BY <1>0, <1>3, <1>6, CountStays DEF Counted, group
<1>8. src' = src \/ src' = src \ {Dir}
  <2>1. CASE task[t].todo = {}
    <3>1. Members \cap src = {}
      BY <1>0, <2>1 DEF TInv, Walks
    <3> QED
      BY <2>1, <3>1, Tree DEF LeaveDir, Remove
  <2>2. CASE task[t].todo # {}
    BY <2>2 DEF LeaveDir
  <2> QED
    BY <2>1, <2>2
<1>9. src' \subseteq src /\ Destination'
  <2>1. {Dir} \in SUBSET Paths /\ \A q \in {Dir} : q \notin Files
    BY Tree
  <2> QED
    BY <1>0, <1>8, <2>1, RemoveMeets
<1>10. StepMeets(r)
  BY <1>0, <1>3, <1>5, <1>8, <1>9 DEF TInv, Types, RemovesMoved, StepMeets, group
<1>11. Keeps(t, r)
  BY <1>0, <1>3, Removing
<1> QED
  BY <1>3, <1>4, <1>7, <1>10, <1>11, OneTask

(* What an upload does to the destination, whether it succeeds or fails.   *)
LEMMA PutEffect ==
  ASSUME TInv, NEW p \in Paths, p # Dir,
         \/ dst' = [Made({p}) EXCEPT ![p] = "own"]
         \/ dst' \in CutShort(p)
  PROVE  /\ dst' \in [Paths -> {"none", "old", "own", "part", "dir"}]
         /\ \A q \in Paths : q # Dir /\ q # p => dst'[q] = dst[q]
         /\ dst'[p] # "dir"
         /\ dst'[Dir] = dst[Dir] \/ (dst[Dir] = "none" /\ dst'[Dir] = "dir")
<1>0. /\ dst \in [Paths -> {"none", "old", "own", "part", "dir"}] /\ Dir \in Paths
      /\ dst[p] # "dir"
  BY Tree DEF TInv, Types, Destination
<1>1. PICK made : made = Made({p})
  OBVIOUS
<1>2. made = dst \/ (dst[Dir] = "none" /\ made = [dst EXCEPT ![Dir] = "dir"])
  BY <1>1, Zenon DEF Made
<1>3. /\ made \in [Paths -> {"none", "old", "own", "part", "dir"}]
      /\ \A q \in Paths : q # Dir => made[q] = dst[q]
      /\ made[Dir] = dst[Dir] \/ (dst[Dir] = "none" /\ made[Dir] = "dir")
  BY <1>0, <1>2
<1>4. dst' = dst \/ dst' = made \/ \E x \in {"own", "part", "none"} : dst' = [made EXCEPT ![p] = x]
  BY <1>1, Zenon DEF CutShort
<1>5. CASE dst' = dst
  BY <1>0, <1>5
<1>6. CASE dst' = made
  BY <1>0, <1>3, <1>6
<1>7. ASSUME NEW x \in {"own", "part", "none"}, dst' = [made EXCEPT ![p] = x]
      PROVE  /\ dst' \in [Paths -> {"none", "old", "own", "part", "dir"}]
             /\ \A q \in Paths : q # Dir /\ q # p => dst'[q] = dst[q]
             /\ dst'[p] # "dir"
             /\ dst'[Dir] = dst[Dir] \/ (dst[Dir] = "none" /\ dst'[Dir] = "dir")
  BY <1>0, <1>3, <1>7
<1> QED
  BY <1>4, <1>5, <1>6, <1>7

(* op.Put.                                                                 *)
LEMMA PutStep ==
  ASSUME TInv, NEW t \in DOMAIN task, Put(t)
  PROVE  TInv'
<1>0. Types /\ PendingCounts /\ task[t].st = "sending" /\ UNCHANGED <<src, group>> /\ src' = src
  BY DEF TInv, Put, At
<1>1. task[t] \in Task /\ task[t].path # Dir
  BY <1>0, Fields DEF TInv, Walks
<1> PICK p : p = task[t].path
  OBVIOUS
<1>2. /\ p \in Paths /\ p # Dir /\ p \in Files /\ Dir \in Paths /\ Dir \notin Files
      /\ Below(p) = {p}
  BY <1>1, Tree DEF Task
<1>3. \/ /\ dst' = [Made({p}) EXCEPT ![p] = "own"] /\ ~Blocked(p)
         /\ Goto(t, "ok") /\ broken' = broken \ {p}
      \/ /\ dst' \in CutShort(p)
         /\ Goto(t, "bad") /\ broken' = broken \cup Spoilt(p, dst')
  BY Zenon DEF Put
<1>4. /\ dst' \in [Paths -> {"none", "old", "own", "part", "dir"}]
      /\ \A q \in Paths : q # Dir /\ q # p => dst'[q] = dst[q]
      /\ dst'[p] # "dir"
      /\ dst'[Dir] = dst[Dir] \/ (dst[Dir] = "none" /\ dst'[Dir] = "dir")
  BY <1>2, <1>3, PutEffect
<1>5. broken' \subseteq Files /\ \A f : f \in broken /\ f # p => f \in broken'
  BY <1>0, <1>3 DEF Types, Spoilt
<1>6. /\ \A q \in Paths : dst'[q] = "dir" => q = Dir
      /\ dst'[Dir] \in {"none", "dir", "old"}
  BY <1>4 DEF TInv, Destination
<1>7. Settled(p)' /\ (p \in src \/ dst'[p] = "own" \/ p \in broken')
  <2>1. CASE /\ dst' = [Made({p}) EXCEPT ![p] = "own"] /\ ~Blocked(p)
    <3>1. p \in DOMAIN Made({p})
      BY <1>0, <1>2 DEF Made, Types
    <3>2. dst'[p] = "own"
      BY <2>1, <3>1
    <3>3. ~(p \in Members /\ dst'[Dir] = "old")
      BY <1>4, <2>1 DEF Blocked
    <3> QED
      BY <3>2, <3>3 DEF Settled
  <2>2. CASE broken' = broken \cup Spoilt(p, dst')
    <3>1. Settled(p)'
      BY <1>2, <1>4, <1>6, <2>2, FailureSettles
    <3>2. CASE dst[p] = "own" /\ dst'[p] # "own"
      BY <1>2, <2>2, <3>1, <3>2 DEF Spoilt
    <3>3. p \in src \/ dst[p] = "own" \/ p \in broken
      BY <1>2 DEF TInv, Destination, LossNeedsFailure
    <3> QED
      BY <2>2, <3>1, <3>2, <3>3
  <2> QED
    BY <1>3, <2>1, <2>2
<1>8. \A f \in Files : Settled(f) => Settled(f)'
  <2> SUFFICES ASSUME NEW f \in Files, Settled(f), f # p PROVE Settled(f)'
    BY <1>7
  <2>1. f \in Paths /\ f # Dir
    BY Tree
  <2>2. dst'[f] = dst[f] /\ (dst'[Dir] = "old" => dst[Dir] = "old")
    BY <1>4, <2>1
  <2> QED
    BY <1>5, <2>2 DEF Settled
<1>9. Destination'
  <2>1. LossNeedsFailure'
    <3> SUFFICES ASSUME NEW f \in Files PROVE f \in src \/ dst'[f] = "own" \/ f \in broken'
      BY <1>0 DEF LossNeedsFailure
    <3>1. f \in Paths /\ f # Dir
      BY Tree
    <3>2. CASE f # p
      BY <1>4, <1>5, <3>1, <3>2 DEF TInv, Destination, LossNeedsFailure
    <3> QED
      BY <1>7, <3>2
  <2> QED
    BY <1>6, <2>1, Zenon DEF Destination
<1>10. ASSUME NEW st \in {"ok", "bad"}, Goto(t, st) PROVE TInv'
  <2> PICK r : r = [task[t] EXCEPT !.st = st]
    OBVIOUS
  <2>0. st \in States /\ st \in Counted /\ st \notin {"walk", "sending", "listing", "added"}
    BY <1>10 DEF States, Counted
  <2>1. task' = [task EXCEPT ![t] = r]
    BY <1>0, <1>10, <2>0, Fields
  <2>2. /\ r \in Task /\ r.path = task[t].path /\ r.kind = task[t].kind
        /\ r.group = task[t].group /\ r.st = st /\ r.work = task[t].work
    BY <1>1, <2>0 DEF Task
  <2>3. /\ DOMAIN task' = DOMAIN task
        /\ task'[t] = r
        /\ \A u \in DOMAIN task : u # t => task'[u] = task[u]
    BY <1>0, <2>1, <2>2, TaskReplaced
  <2>4. PendingCounts'
    BY <1>0, <2>0, <2>2, <2>3, CountStays DEF Counted, group
  <2>5. StepMeets(r)
    BY <1>0, <1>4, <1>5, <1>9, <2>0, <2>2 DEF TInv, Types, RemovesMoved, StepMeets, group
  <2>6. Keeps(t, r)
    <3>1. \A g, f : Covers(task[t], g, f) => f = p
      BY <1>0, <1>1 DEF Covers
    <3>2. payloads' = payloads
      BY <1>0 DEF group
    <3> QED
      BY <1>7, <1>8, <2>2, <3>1, <3>2, Zenon DEF Keeps
  <2> QED
    BY <2>1, <2>2, <2>4, <2>5, <2>6, OneTask
<1> QED
  BY <1>3, <1>10

(* Nothing happens to the storages.                                        *)
LEMMA StorageStill ==
  ASSUME TInv, UNCHANGED <<src, dst, broken>>
  PROVE  /\ Destination' /\ src' = src /\ dst' = dst
         /\ dst' \in [Paths -> {"none", "old", "own", "part", "dir"}]
         /\ broken' \subseteq Files
         /\ \A f : Settled(f) => Settled(f)'
BY Zenon DEF TInv, Types, Destination, LossNeedsFailure, Settled

(* A move that is queued will see to every file of its entry.              *)
LEMMA QueuedCovers ==
  ASSUME NEW r \in Task, r.st = "queued", r.kind = "move"
  PROVE  \A f \in Below(r.path) \cap Files : Covers(r, r.group, f)
<1>1. CASE r.path = Dir
  BY <1>1, Tree DEF Covers
<1>2. CASE r.path # Dir
  BY <1>2, Tree DEF Covers, Task
<1> QED
  BY <1>1, <1>2

(* What is noted for a task is its own entry, and only for a move.         *)
LEMMA OwnSource ==
  ASSUME TInv, NEW t \in DOMAIN task, NEW pay, pay = SourceToRemove(task[t].kind, task[t].path)
  PROVE  /\ pay \subseteq Paths /\ \A p \in pay : Moved(p)
         /\ \A p \in pay : p = task[t].path /\ task[t].kind = "move"
<1>1. task[t] \in Task
  BY Fields DEF TInv
<1> QED
  BY <1>1 DEF SourceToRemove, Moved, Task

(* AddTask keeps the maps in order.                                        *)
LEMMA AddMeets ==
  ASSUME TInv, NEW h \in Groups, NEW pay \in SUBSET Paths, \A p \in pay : Moved(p),
         AddTask(h, pay)
  PROVE  /\ pending' = [pending EXCEPT ![h] = @ + 1]
         /\ pending' \in [Groups -> Nat] /\ hasSuccess' \in [Groups -> BOOLEAN]
         /\ payloads' \in [Groups -> SUBSET Paths]
         /\ \A g \in Groups : \A p \in payloads'[g] : Moved(p)
         /\ \A g \in Groups : \A p \in payloads'[g] : p \in payloads[g] \/ (g = h /\ p \in pay)
BY DEF TInv, Types, RemovesMoved, AddTask

(* What is to be removed is noted, and the manager has the task.           *)
LEMMA SubmitStep ==
  ASSUME TInv, NEW t \in DOMAIN task, Submit(t)
  PROVE  TInv'
<1> PICK pay : pay = SourceToRemove(task[t].kind, task[t].path)
  OBVIOUS
<1>0. /\ Types /\ PendingCounts /\ task[t].st = "added" /\ UNCHANGED <<src, dst, broken>>
      /\ AppendPayload("top", pay) /\ Goto(t, "queued")
  BY DEF TInv, Submit, At
<1>1. /\ pay \subseteq Paths /\ \A p \in pay : Moved(p)
      /\ \A p \in pay : p = task[t].path /\ task[t].kind = "move"
  BY OwnSource
<1>2. /\ pending' = pending /\ hasSuccess' = hasSuccess
      /\ payloads' \in [Groups -> SUBSET Paths]
      /\ \A g \in Groups : \A p \in payloads'[g] : Moved(p)
      /\ \A g \in Groups : \A p \in payloads'[g] :
            p \in payloads[g] \/ (g = "top" /\ p \in pay)
  BY <1>0, <1>1 DEF TInv, Types, RemovesMoved, AppendPayload, Groups
<1> PICK r : r = [task[t] EXCEPT !.st = "queued"]
  OBVIOUS
<1>3. task[t] \in Task /\ task' = [task EXCEPT ![t] = r]
  BY <1>0, Fields DEF States, Counted
<1>4. /\ r \in Task /\ r.path = task[t].path /\ r.kind = task[t].kind
      /\ r.group = task[t].group /\ r.st = "queued" /\ r.work = task[t].work
  BY <1>3 DEF Task, States, Counted
<1>5. /\ DOMAIN task' = DOMAIN task
      /\ task'[t] = r
      /\ \A u \in DOMAIN task : u # t => task'[u] = task[u]
  BY <1>0, <1>3, <1>4, TaskReplaced
<1>6. PendingCounts'
  BY <1>0, <1>2, <1>4, <1>5, CountStays DEF Counted
<1>7. StepMeets(r)
  BY <1>0, <1>2, <1>4, StorageStill DEF TInv, Types, RemovesMoved, StepMeets
<1>8. Keeps(t, r)
  <2>1. \A g, f : ~Covers(task[t], g, f)
    BY <1>0 DEF Covers
  <2>2. r.group = "top"
    BY <1>0, <1>4 DEF TInv, Walks
  <2>3. r.kind = "move" => \A f \in Below(r.path) \cap Files : Covers(r, "top", f)
    BY <1>4, <2>2, QueuedCovers
  <2>4. \A g \in Groups : \A p \in payloads'[g] :
          p \in payloads[g] \/ \A f \in Below(p) \cap Files : Covers(r, g, f)
    BY <1>1, <1>2, <1>4, <2>3, Zenon
  <2>5. \A f : Settled(f) => Settled(f)'
    BY <1>0, StorageStill
  <2> QED
    BY <1>4, <2>1, <2>4, <2>5, Zenon DEF Keeps
<1> QED
  BY <1>3, <1>4, <1>6, <1>7, <1>8, OneTask

(* A task comes back to a group: Retry and Reload.                         *)
LEMMA ComesBack ==
  ASSUME TInv, NEW t \in DOMAIN task, NEW r \in Task,
         task[t].st \notin Counted, r.st = "queued",
         r.path = task[t].path, r.kind = task[t].kind, r.work = task[t].work,
         task' = [task EXCEPT ![t] = r], UNCHANGED <<src, dst, broken>>,
         AddTask(r.group, SourceToRemove(task[t].kind, task[t].path))
  PROVE  TInv'
<1>0. Types /\ PendingCounts /\ r.group \in Groups
  BY DEF TInv, Task
<1> PICK pay : pay = SourceToRemove(task[t].kind, task[t].path)
  OBVIOUS
<1>1. /\ pay \subseteq Paths /\ \A p \in pay : Moved(p)
      /\ \A p \in pay : p = task[t].path /\ task[t].kind = "move"
  BY OwnSource
<1>2. /\ pending' = [pending EXCEPT ![r.group] = @ + 1]
      /\ pending' \in [Groups -> Nat] /\ hasSuccess' \in [Groups -> BOOLEAN]
      /\ payloads' \in [Groups -> SUBSET Paths]
      /\ \A g \in Groups : \A p \in payloads'[g] : Moved(p)
      /\ \A g \in Groups : \A p \in payloads'[g] :
            p \in payloads[g] \/ (g = r.group /\ p \in pay)
  BY <1>0, <1>1, AddMeets
<1>3. /\ DOMAIN task' = DOMAIN task
      /\ task'[t] = r
      /\ \A u \in DOMAIN task : u # t => task'[u] = task[u]
  BY <1>0, TaskReplaced
<1>4. PendingCounts'
  BY <1>0, <1>2, <1>3, CountJoins DEF Counted
<1>5. StepMeets(r)
  BY <1>2, StorageStill DEF TInv, RemovesMoved, StepMeets
<1>6. Keeps(t, r)
  <2>1. \A g, f : ~Covers(task[t], g, f)
    BY DEF Covers, Counted
  <2>2. r.kind = "move" => \A f \in Below(r.path) \cap Files : Covers(r, r.group, f)
    BY QueuedCovers
  <2>3. \A g \in Groups : \A p \in payloads'[g] :
          p \in payloads[g] \/ \A f \in Below(p) \cap Files : Covers(r, g, f)
    BY <1>1, <1>2, <2>2, Zenon
  <2>4. \A f : Settled(f) => Settled(f)'
    BY StorageStill
  <2> QED
    BY <2>1, <2>3, <2>4, Zenon DEF Keeps
<1> QED
  BY <1>4, <1>5, <1>6, OneTask

(* SetRetry(0) of a failed task.                                           *)
LEMMA RetryStep ==
  ASSUME TInv, NEW t \in DOMAIN task, Retry(t)
  PROVE  TInv'
<1> PICK g : g = GroupOf(task[t].path)
  OBVIOUS
<1>0. /\ Types /\ g \in Groups /\ task[t].st = "failed" /\ UNCHANGED <<src, dst, broken>>
      /\ task' = [task EXCEPT ![t].st = "queued", ![t].group = g, ![t].todo = {},
                              ![t].tries = 0]
      /\ AddTask(g, SourceToRemove(task[t].kind, task[t].path))
  BY DEF TInv, Retry, At, GroupOf, Groups
<1>1. task[t] \in Task
  BY <1>0, Fields
<1> PICK r : r = [task[t] EXCEPT !.st = "queued", !.group = g, !.todo = {}, !.tries = 0]
  OBVIOUS
<1>2. /\ r \in Task /\ r.path = task[t].path /\ r.kind = task[t].kind
      /\ r.group = g /\ r.st = "queued" /\ r.work = task[t].work
  BY <1>0, <1>1 DEF Task, States, Counted
<1>3. task' = [task EXCEPT ![t] = r]
  BY <1>0
<1>4. /\ task[t].st \notin Counted /\ UNCHANGED <<src, dst, broken>>
      /\ AddTask(r.group, SourceToRemove(task[t].kind, task[t].path))
  BY <1>0, <1>2 DEF Counted
<1> QED
  BY <1>2, <1>3, <1>4, ComesBack

(* SetRetry(0) of a task that is loaded again.                             *)
LEMMA ReloadStep ==
  ASSUME TInv, NEW t \in DOMAIN task, Reload(t)
  PROVE  TInv'
<1>0. /\ Types /\ task[t].st = "reload" /\ UNCHANGED <<src, dst, broken>>
      /\ Goto(t, "queued")
      /\ AddTask(task[t].group, SourceToRemove(task[t].kind, task[t].path))
  BY DEF TInv, Reload, At
<1> PICK r : r = [task[t] EXCEPT !.st = "queued"]
  OBVIOUS
<1>1. task[t] \in Task /\ task' = [task EXCEPT ![t] = r]
  BY <1>0, Fields DEF States, Counted
<1>2. /\ r \in Task /\ r.path = task[t].path /\ r.kind = task[t].kind
      /\ r.group = task[t].group /\ r.st = "queued" /\ r.work = task[t].work
  BY <1>1 DEF Task, States, Counted
<1> QED
  BY <1>0, <1>1, <1>2, ComesBack DEF Counted

(* When the last task of a group reports, what the group is to remove is   *)
(* settled: no other task is left that was to see to it.                   *)
LEMMA LastReport ==
  ASSUME TInv, NEW t \in DOMAIN task, task[t].st \in {"ok", "bad"},
         NEW h \in Groups, h = task[t].group, pending[h] = 1
  PROVE  \A p \in payloads[h] : \A f \in Below(p) \cap Files \cap src : Settled(f)
<1>1. Types /\ PendingCounts
  BY DEF TInv
<1>2. IsFiniteSet(Waits(h)) /\ Cardinality(Waits(h)) = 1 /\ t \in Waits(h)
  BY <1>1, WaitsFinite DEF PendingCounts, Waits, Counted
<1>3. Cardinality(Waits(h) \ {t}) = 0 /\ IsFiniteSet(Waits(h) \ {t})
  BY <1>2, FS_RemoveElement
<1>4. Waits(h) \ {t} = {}
  BY <1>3, FS_EmptySet
<1>5. ASSUME NEW u \in DOMAIN task, NEW f, Covers(task[u], h, f) PROVE FALSE
  <2>1. u \in Waits(h)
    BY <1>5 DEF Covers, Waits, Counted
  <2>2. u = t
    BY <1>4, <2>1
  <2> QED
    BY <1>5, <2>2 DEF Covers
<1> QED
  BY <1>5, Zenon DEF TInv, Covered

(* A task reports to the coordinator.                                      *)
LEMMA ReportStep ==
  ASSUME TInv, NEW t \in DOMAIN task, Report(t)
  PROVE  TInv'
<1> PICK h : h = task[t].group
  OBVIOUS
<1>0. PICK success \in BOOLEAN :
       /\ At(t, IF success THEN "ok" ELSE "bad") /\ Done(h, success)
       /\ UNCHANGED <<src, dst, broken>>
       /\ \/ /\ task' = [task EXCEPT ![t].st = "hook", ![t].work = payloads[h], ![t].bad = ~success]
             /\ pending[h] = 1
          \/ Goto(t, IF success THEN "done" ELSE "failed")
  BY Zenon DEF Report, Completes
<1>1. Types /\ PendingCounts /\ task[t] \in Task /\ task[t].st \in {"ok", "bad"}
  BY <1>0, Fields DEF TInv, At
<1>2. h \in Groups /\ payloads[h] \in SUBSET Paths /\ (~success) \in BOOLEAN
      /\ \A p \in payloads[h] : Moved(p)
  BY <1>1 DEF TInv, Types, RemovesMoved, Task
<1>3. PICK r \in Task :
        /\ r.path = task[t].path /\ r.kind = task[t].kind
        /\ r.st \in {"hook", "done", "failed"}
        /\ \A p \in r.work : Moved(p)
        /\ r.work = task[t].work \/ (r.work = payloads[h] /\ pending[h] = 1)
        /\ task' = [task EXCEPT ![t] = r]
  <2>1. CASE /\ task' = [task EXCEPT ![t].st = "hook", ![t].work = payloads[h], ![t].bad = ~success]
             /\ pending[h] = 1
    <3> PICK r : r = [task[t] EXCEPT !.st = "hook", !.work = payloads[h], !.bad = ~success]
      OBVIOUS
    <3>1. /\ r \in Task /\ r.path = task[t].path /\ r.kind = task[t].kind
          /\ r.st = "hook" /\ r.work = payloads[h]
      BY <1>1, <1>2 DEF Task, States
    <3>2. task' = [task EXCEPT ![t] = r]
      BY <2>1
    <3> QED
      BY <1>2, <2>1, <3>1, <3>2, Zenon
  <2>2. CASE Goto(t, IF success THEN "done" ELSE "failed")
    <3> PICK st \in {"done", "failed"} : Goto(t, st)
      BY <2>2
    <3> PICK r : r = [task[t] EXCEPT !.st = st]
      OBVIOUS
    <3>1. /\ r \in Task /\ r.path = task[t].path /\ r.kind = task[t].kind
          /\ r.st = st /\ r.work = task[t].work
      BY <1>1 DEF Task, States
    <3>2. task' = [task EXCEPT ![t] = r]
      BY <1>1, Fields DEF States
    <3>3. \A p \in r.work : Moved(p)
      BY <3>1 DEF TInv, RemovesMoved
    <3> QED
      BY <3>1, <3>2, <3>3, Zenon
  <2> QED
    BY <1>0, <2>1, <2>2
<1>4. /\ DOMAIN task' = DOMAIN task
      /\ task'[t] = r
      /\ \A u \in DOMAIN task : u # t => task'[u] = task[u]
  BY <1>1, <1>3, TaskReplaced
<1>5. /\ PendingCounts'
      /\ pending' \in [Groups -> Nat]
      /\ hasSuccess' \in [Groups -> BOOLEAN]
      /\ \A g \in Groups : payloads'[g] \subseteq payloads[g]
      /\ payloads' \in [Groups -> SUBSET Paths]
  <2>1. task[t].st \in Counted /\ r.st \notin Counted
    BY <1>1, <1>3 DEF Counted
  <2> QED
    BY <1>0, <1>1, <1>4, <2>1, CountLeaves
<1>6. StepMeets(r)
  BY <1>0, <1>3, <1>5, StorageStill DEF TInv, RemovesMoved, StepMeets
<1>7. Keeps(t, r)
  <2>1. \A g, f : ~Covers(task[t], g, f)
    BY <1>1 DEF Covers
  <2>2. \A p \in r.work : p \in task[t].work \/ \A f \in Below(p) \cap Files \cap src : Settled(f)
    BY <1>1, <1>2, <1>3, LastReport
  <2>3. \A f : Settled(f) => Settled(f)'
    BY <1>0, StorageStill
  <2> QED
    BY <1>5, <2>1, <2>2, <2>3, Zenon DEF Keeps
<1> QED
  BY <1>3, <1>5, <1>6, <1>7, OneTask
-----------------------------------------------------------------------------
(* New tasks.                                                              *)

(* The tasks keep all but their list, ...                                  *)
SameTasks(s) ==
    \A u \in DOMAIN task :
       /\ s[u].path = task[u].path /\ s[u].kind = task[u].kind
       /\ s[u].group = task[u].group /\ s[u].st = task[u].st
       /\ s[u].work = task[u].work
       /\ s[u].st = "walk" => s[u].todo = task[u].todo

(* ... and what one of them drops from it is left to r.                    *)
LeavesTo(s, r) ==
    \A u \in DOMAIN task : \A g, f :
       Covers(task[u], g, f) => Covers(s[u], g, f) \/ Covers(r, g, f)

(* A task is counted and added.                                            *)
LEMMA NewCounted ==
  ASSUME TInv, NEW s \in Seq(Task), DOMAIN s = DOMAIN task, Len(s) = Len(task),
         SameTasks(s), NEW r \in Task, r.st \in {"added", "queued"}, r.work = {},
         r.st = "added" => r.group = "top", LeavesTo(s, r),
         task' = Append(s, r), AddTask(r.group, {}), UNCHANGED <<src, dst, broken>>
  PROVE  TInv'
<1> PICK n : n = Len(task) + 1
  OBVIOUS
<1>0. Types /\ PendingCounts /\ r.group \in Groups
  BY DEF TInv, Task
<1>1. /\ task' \in Seq(Task) /\ DOMAIN task' = DOMAIN task \cup {n}
      /\ n \notin DOMAIN task /\ task'[n] = r
      /\ \A u \in DOMAIN task : task'[u] = s[u]
  BY TaskAdded
<1>2. /\ pending' = [pending EXCEPT ![r.group] = @ + 1]
      /\ pending' \in [Groups -> Nat] /\ hasSuccess' \in [Groups -> BOOLEAN]
      /\ payloads' \in [Groups -> SUBSET Paths]
      /\ \A g \in Groups : \A p \in payloads'[g] : Moved(p)
      /\ \A g \in Groups : \A p \in payloads'[g] : p \in payloads[g]
  BY <1>0, AddMeets
<1>3. \A p : Moved(p) => Moved(p)'
  BY <1>1 DEF Moved, SameTasks
<1>4. Destination' /\ src' = src /\ dst' = dst /\ broken' \subseteq Files
      /\ \A f : Settled(f) => Settled(f)'
  BY StorageStill
<1>5. Types'
  BY <1>0, <1>1, <1>2, <1>4, Zenon DEF Types
<1>6. PendingCounts'
  <2>1. \A g \in Groups : g # r.group => Waits(g)' = Waits(g)
    BY <1>1 DEF Waits, SameTasks
  <2>2. n \notin Waits(r.group) /\ Waits(r.group)' = Waits(r.group) \cup {n}
    BY <1>1 DEF Waits, Counted, SameTasks
  <2>3. pending \in [Groups -> Nat]
    BY <1>0 DEF Types
  <2>4. ASSUME NEW g \in Groups PROVE pending'[g] = Cardinality(Waits(g)')
    <3>1. CASE g = r.group
      <4>1. Cardinality(Waits(g)') = pending[g] + 1
        BY <1>0, <2>2, <3>1, CountMoves
      <4> QED
        BY <1>2, <2>3, <3>1, <4>1
    <3>2. CASE g # r.group
      <4>1. Cardinality(Waits(g)') = pending[g]
        BY <1>0, <2>1, <3>2, CountMoves
      <4> QED
        BY <1>2, <2>3, <3>2, <4>1
    <3> QED
      BY <3>1, <3>2
  <2> QED
    BY <2>4 DEF PendingCounts, Waits
<1>7. RemovesMoved'
  <2>1. \A t \in DOMAIN task' : \A p \in task'[t].work : t \in DOMAIN task /\ p \in task[t].work
    BY <1>1, Zenon DEF SameTasks
  <2>2. \A t \in DOMAIN task : \A p \in task[t].work : Moved(p)
    BY Zenon DEF TInv, RemovesMoved
  <2> QED
    BY <1>2, <1>3, <2>1, <2>2, Zenon DEF RemovesMoved
<1>8. GoneWasMoved'
  BY <1>3, <1>4 DEF TInv, GoneWasMoved
<1>9. Walks'
  BY <1>1, <1>4 DEF TInv, Walks, SameTasks
<1>10. Covered'
  <2>1. ASSUME NEW g \in Groups, NEW p \in payloads'[g],
               NEW f \in Below(p) \cap Files \cap src'
        PROVE  Settled(f)' \/ \E u \in DOMAIN task' : Covers(task'[u], g, f)
    <3>1. Settled(f) \/ \E u \in DOMAIN task : Covers(task[u], g, f)
      BY <1>2, <1>4, Zenon DEF TInv, Covered
    <3>2. ASSUME NEW u \in DOMAIN task, Covers(task[u], g, f)
          PROVE  \E v \in DOMAIN task' : Covers(task'[v], g, f)
      <4>1. Covers(s[u], g, f) \/ Covers(r, g, f)
        BY <3>2, Zenon DEF LeavesTo
      <4> QED
        BY <1>1, <4>1
    <3> QED
      BY <1>4, <3>1, <3>2
  <2>2. ASSUME NEW u \in DOMAIN task', NEW p \in task'[u].work,
               NEW f \in Below(p) \cap Files \cap src'
        PROVE  Settled(f)'
    <3>1. u \in DOMAIN task /\ p \in task[u].work
      BY <1>1 DEF SameTasks
    <3>2. Settled(f)
      BY <1>4, <3>1, Zenon DEF TInv, Covered
    <3> QED
      BY <1>4, <3>2
  <2> QED
    BY <2>1, <2>2, Zenon DEF Covered
<1> QED
  BY <1>4, <1>5, <1>6, <1>7, <1>8, <1>9, <1>10, Zenon DEF TInv

(* transfer.                                                               *)
LEMMA TransferStep ==
  ASSUME TInv, NEW p \in Roots, NEW kind \in Kinds, transfer(p, kind)
  PROVE  TInv'
<1> PICK r : r = NewTask(p, kind, "top", "added")
  OBVIOUS
<1>1. task' = Append(task, r) /\ AddTask(r.group, {}) /\ UNCHANGED <<src, dst, broken>>
  BY DEF transfer, NewTask
<1>2. r \in Task /\ r.st \in {"added", "queued"} /\ r.work = {} /\ r.group = "top"
  BY DEF NewTask, Task, Paths, Groups, States, Counted
<1>3. task \in Seq(Task)
  BY DEF TInv, Types
<1>4. SameTasks(task) /\ LeavesTo(task, r)
  BY Zenon DEF SameTasks, LeavesTo
<1> QED
  BY <1>1, <1>2, <1>3, <1>4, NewCounted, Zenon

(* A task for an entry of a directory.                                     *)
LEMMA SpawnStep ==
  ASSUME TInv, NEW t \in DOMAIN task, Spawn(t)
  PROVE  TInv'
<1>0. Types /\ task[t].st = "listing" /\ task[t] \in Task /\ task \in Seq(Task)
  BY Fields DEF TInv, Types, Spawn, At
<1>1. PICK c \in task[t].todo :
       /\ task' = Append([task EXCEPT ![t].todo = @ \ {c}],
                         NewTask(c, task[t].kind, task[t].group, "queued"))
       /\ AddTask(task[t].group, {})
       /\ UNCHANGED <<src, dst, broken>>
  BY Zenon DEF Spawn
<1> PICK q : q = [task[t] EXCEPT !.todo = task[t].todo \ {c}]
  OBVIOUS
<1>2. /\ q \in Task /\ q.path = task[t].path /\ q.kind = task[t].kind
      /\ q.group = task[t].group /\ q.st = "listing" /\ q.work = task[t].work
      /\ q.todo = task[t].todo \ {c}
  BY <1>0 DEF Task
<1> PICK s : s = [task EXCEPT ![t] = q]
  OBVIOUS
<1>3. /\ s \in Seq(Task) /\ DOMAIN s = DOMAIN task /\ Len(s) = Len(task)
      /\ s[t] = q /\ \A u \in DOMAIN task : u # t => s[u] = task[u]
  BY <1>0, <1>2
<1> PICK r : r = NewTask(c, task[t].kind, task[t].group, "queued")
  OBVIOUS
<1>4. task' = Append(s, r) /\ AddTask(r.group, {})
  BY <1>1 DEF NewTask
<1>5. /\ r \in Task /\ r.st = "queued" /\ r.work = {}
      /\ r.path = c /\ r.group = task[t].group
  <2>1. c \in Paths /\ task[t].kind \in Kinds /\ task[t].group \in Groups
    BY <1>0 DEF Task, Paths
  <2> QED
    BY <2>1 DEF NewTask, Task, States, Counted
<1>6. SameTasks(s)
  BY <1>0, <1>2, <1>3 DEF SameTasks
<1>7. ASSUME NEW u \in DOMAIN task, NEW g, NEW f, Covers(task[u], g, f)
      PROVE  Covers(s[u], g, f) \/ Covers(r, g, f)
  <2>1. CASE u # t
    BY <1>3, <1>7, <2>1
  <2>2. CASE u = t /\ f = c
    BY <1>5, <1>7, <2>2 DEF Covers
  <2>3. CASE u = t /\ f # c
    BY <1>0, <1>2, <1>3, <1>7, <2>3 DEF Covers
  <2> QED
    BY <2>1, <2>2, <2>3
<1>8. LeavesTo(s, r)
  BY <1>7, Zenon DEF LeavesTo
<1>9. /\ r.st \in {"added", "queued"} /\ (r.st = "added" => r.group = "top")
      /\ UNCHANGED <<src, dst, broken>>
  BY <1>1, <1>5
<1> QED
  BY <1>3, <1>4, <1>5, <1>6, <1>8, <1>9, NewCounted, Zenon
-----------------------------------------------------------------------------
(* A restart leaves no task that counts, and nothing to remove.            *)
LEMMA RestartStep ==
  ASSUME TInv, Restart
  PROVE  TInv'
<1>0. Types /\ task \in Seq(Task) /\ DOMAIN task = 1 .. Len(task) /\ Len(task) \in Nat
  BY DEF TInv, Types
<1>1. DOMAIN task' = DOMAIN task
  BY DEF Restart
<1>2. ASSUME NEW u \in DOMAIN task
      PROVE  /\ task'[u] \in Task /\ task'[u].path = task[u].path
             /\ task'[u].kind = task[u].kind /\ task'[u].work = {}
             /\ task'[u].st \in {"lost", "reload", "failed", "done"}
  <2>1. task[u] \in Task
    BY <1>0, Fields
  <2>2. PICK st \in {"lost", "reload", "failed", "done"} :
           task'[u] = NewTask(task[u].path, task[u].kind, GroupOf(task[u].path), st)
    BY DEF Restart
  <2>3. st \in States /\ GroupOf(task[u].path) \in Groups
    BY DEF States, GroupOf, Groups
  <2> QED
    BY <2>1, <2>2, <2>3 DEF NewTask, Task
<1>3. task' \in Seq(Task)
  <2>1. task' = [u \in 1 .. Len(task) |-> task'[u]]
    BY <1>0 DEF Restart
  <2> QED
    BY <1>0, <1>2, <2>1
<1>4. /\ pending' = [g \in Groups |-> 0] /\ hasSuccess' = [g \in Groups |-> FALSE]
      /\ payloads' = [g \in Groups |-> {}] /\ src' = src
  BY DEF Restart
<1>c. PICK cut \in SUBSET {task[t].path : t \in {u \in DOMAIN task : At(u, "sending")}} :
        /\ dst' = [p \in Paths |-> IF p \in cut THEN "part" ELSE Made(cut)[p]]
        /\ broken' = broken \cup cut
  BY DEF Restart
<1>d. cut \subseteq Files
  <2> SUFFICES ASSUME NEW p \in cut PROVE p \in Files
    OBVIOUS
  <2>1. PICK u \in DOMAIN task : At(u, "sending") /\ p = task[u].path
    BY <1>c
  <2>2. p \in Paths /\ p # Dir
    BY <1>0, <2>1, Fields DEF TInv, Walks, At, Task
  <2> QED
    BY <2>2, Tree
<1>e. /\ dst \in [Paths -> {"none", "old", "own", "part", "dir"}] /\ Dir \in Paths
      /\ dst[Dir] \in {"none", "dir", "old"}
  BY Tree DEF TInv, Types, Destination
<1>f. PICK made : made = Made(cut)
  OBVIOUS
<1>g. made = dst \/ (dst[Dir] = "none" /\ made = [dst EXCEPT ![Dir] = "dir"])
  BY <1>f, Zenon DEF Made
<1>h. /\ made \in [Paths -> {"none", "old", "own", "part", "dir"}]
      /\ \A q \in Paths : q # Dir => made[q] = dst[q]
      /\ made[Dir] \in {"none", "dir", "old"}
  BY <1>e, <1>g
<1>i. /\ dst' \in [Paths -> {"none", "old", "own", "part", "dir"}]
      /\ \A q \in Paths : q \in cut => dst'[q] = "part"
      /\ \A q \in Paths : q \notin cut => dst'[q] = made[q]
  BY <1>c, <1>f, <1>h
<1>5. Destination'
  <2>1. \A q \in Paths : dst'[q] = "dir" => q = Dir
    BY <1>h, <1>i DEF TInv, Destination
  <2>2. dst'[Dir] \in {"none", "dir", "old"}
    BY <1>d, <1>e, <1>h, <1>i, Tree
  <2>3. LossNeedsFailure'
    <3> SUFFICES ASSUME NEW f \in Files PROVE f \in src \/ dst'[f] = "own" \/ f \in broken'
      BY <1>4 DEF LossNeedsFailure
    <3>1. f \in Paths /\ f # Dir
      BY Tree
    <3>2. CASE f \notin cut
      BY <1>c, <1>h, <1>i, <3>1, <3>2 DEF TInv, Destination, LossNeedsFailure
    <3> QED
      BY <1>c, <3>2
  <2> QED
    BY <2>1, <2>2, <2>3, Zenon DEF Destination
<1>6. Types'
  BY <1>0, <1>3, <1>4, <1>c, <1>d, <1>i DEF Types
<1>7. PendingCounts'
  <2>1. \A g \in Groups : Waits(g)' = {}
    BY <1>1, <1>2 DEF Waits, Counted
  <2>2. \A g \in Groups : Cardinality(Waits(g)') = 0
    BY <2>1, FS_EmptySet
  <2> QED
    BY <1>4, <2>2 DEF PendingCounts, Waits
<1>8. \A p : Moved(p) <=> Moved(p)'
  BY <1>1, <1>2 DEF Moved
<1>9. RemovesMoved'
  BY <1>1, <1>2, <1>4 DEF RemovesMoved
<1>10. GoneWasMoved'
  BY <1>4, <1>8 DEF TInv, GoneWasMoved
<1>11. Walks'
  BY <1>1, <1>2 DEF Walks
<1>12. Covered'
  BY <1>1, <1>2, <1>4 DEF Covered
<1> QED
  BY <1>5, <1>6, <1>7, <1>9, <1>10, <1>11, <1>12, Zenon DEF TInv
-----------------------------------------------------------------------------
(* The theorems.                                                           *)

(* The initial states.                                                     *)
LEMMA InitTInv == Init => TInv
<1> SUFFICES ASSUME Init PROVE TInv
  OBVIOUS
<1>1. src = Paths /\ task = << >> /\ DOMAIN task = {}
  BY DEF Init
<1>2. /\ dst \in [Paths -> {"none", "old", "own", "part", "dir"}]
      /\ \A p \in Paths : dst[p] = "dir" => p = Dir
      /\ \A p \in Paths : dst[p] \in {"none", "dir", "old"}
  BY DEF Init
<1>3. Types
  BY <1>1, <1>2 DEF Init, Types
<1>4. PendingCounts
  <2>1. \A g \in Groups : Cardinality(Waits(g)) = 0
    BY <1>1, FS_EmptySet DEF Waits
  <2> QED
    BY <2>1 DEF Init, PendingCounts, Waits
<1>5. RemovesMoved /\ GoneWasMoved /\ Walks
  BY <1>1 DEF Init, RemovesMoved, GoneWasMoved, Walks
<1>6. Destination
  BY <1>1, <1>2, Tree DEF Destination, LossNeedsFailure
<1>7. Covered
  BY <1>1 DEF Init, Covered
<1> QED
  BY <1>3, <1>4, <1>5, <1>6, <1>7 DEF TInv

(* Every step keeps the invariant.                                         *)
LEMMA NextTInv == TInv /\ [Next]_vars => TInv'
<1> SUFFICES ASSUME TInv, [Next]_vars PROVE TInv'
  OBVIOUS
<1>1. CASE UNCHANGED vars
  BY <1>1 DEF vars, group, TInv, Types, PendingCounts, RemovesMoved, GoneWasMoved,
              Moved, Walks, Destination, LossNeedsFailure, Covered, Settled
<1>2. CASE Restart
  BY <1>2, RestartStep
<1>3. CASE \E p \in Roots, kind \in Kinds : transfer(p, kind)
  BY <1>3, TransferStep
<1>4. ASSUME NEW t \in DOMAIN task, TaskStep(t) \/ Retry(t) PROVE TInv'
  BY <1>4, SubmitStep, RunStep, SpawnStep, ListingStep, PutStep, ReportStep, VerifyStep,
     VisitStep, LeaveStep, FinishHookStep, AgainStep, ReloadStep, RetryStep, Zenon DEF TaskStep
<1> QED
  BY <1>1, <1>2, <1>3, <1>4, Zenon DEF Next

(* The inductive invariant holds of every behaviour, restarts included.    *)
THEOREM TransferInvariant == Spec => []TInv
BY InitTInv, NextTInv, PTL DEF Spec

(* However requests, reports, retries and restarts interleave, what the    *)
(* coordinator counts for a directory is the number of its tasks that have *)
(* not reported (AddTask, Done): HookAndRemove never starts under a        *)
(* transfer that is still running, nor waits for one that is over.         *)
THEOREM GroupsCountTheirTasks == Spec => []PendingCounts
<1>1. TInv => PendingCounts
  BY DEF TInv
<1> QED
  BY <1>1, TransferInvariant, PTL

(* Nothing but a move takes anything from the source, whatever shares its  *)
(* group, whatever fails and whatever is started again.                    *)
THEOREM OnlyMovesRemove == Spec => []CopyKeepsSource
<1>1. TInv => CopyKeepsSource
  <2> SUFFICES ASSUME TInv, NEW p \in Roots, NEW q \in Below(p), q \notin src
               PROVE  \E t \in DOMAIN task :
                         task[t].kind = "move" /\ task[t].path \in Below(p)
    BY Zenon DEF CopyKeepsSource
  <2>1. p \in Paths /\ p \notin Members
    BY TransferAssumption DEF Paths
  <2>2. q \in Paths /\ (q \in Members => p = Dir /\ Dir \in Below(p))
    BY <2>1, Tree
  <2>3. Moved(q) \/ (q \in Members /\ Moved(Dir))
    BY <2>2 DEF TInv, GoneWasMoved
  <2> QED
    BY <2>2, <2>3, Zenon DEF Moved
<1> QED
  BY <1>1, TransferInvariant, PTL

(* Whatever the destination holds beforehand, however uploads fail and     *)
(* whatever they leave behind, in every order of steps, retries and        *)
(* restarts: a file that verifyAndRemove took from the source and that the *)
(* destination has not got is one whose last upload, or the listing of     *)
(* whose directory, failed while another file was in its place.  So what   *)
(* is removed with no failure is in the destination.                       *)
THEOREM LossesHaveACause == Spec => []LossNeedsFailure
<1>1. TInv => LossNeedsFailure
  BY DEF TInv, Destination
<1> QED
  BY <1>1, TransferInvariant, PTL
=============================================================================
