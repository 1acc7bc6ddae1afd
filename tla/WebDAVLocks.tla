---------------------------- MODULE WebDAVLocks ----------------------------
(***************************************************************************)
(* WebDAV locks: the lock system memLS of server/webdav/lock.go and the    *)
(* handlers of server/webdav/webdav.go that use it.  LOCK and UNLOCK       *)
(* manage the locks of clients; a request that writes claims the names it  *)
(* is about (confirmLocks), with temporary locks or by confirming locks it *)
(* names in its If header, and releases them when it is done.              *)
(*                                                                         *)
(* Every critical section of m.mu is one action.  A handler reads the      *)
(* clock before it enters the section, so the sections see the time out of *)
(* order.  A name is the sequence of its elements (slashClean has been     *)
(* applied).  A node of byName exists when its count is not 0; it has a    *)
(* lock when it has a token.  The expiry heap is the set of its nodes.     *)
(* What a handler does with the file system is left out: it is the time    *)
(* during which the request is "active".                                   *)
(***************************************************************************)
EXTENDS Integers, Sequences, FiniteSets

CONSTANTS Elems,    \* the elements of names
          Names,    \* the clean names, closed under walkToRoot
          Durations,\* the lock timeouts clients ask for; -1 is infinite
          Base,     \* the base path of the user
          Reqs,     \* the concurrent requests
          MaxGen,   \* bound: tokens ever made
          MaxClock, \* bound: the time
          None

(* The names walkToRoot visits from n.                                     *)
walkToRoot == [n \in Names |-> {SubSeq(n, 1, i) : i \in 0 .. Len(n)}]

Tokens == 1 .. MaxGen

infiniteTimeout == -1

LockRecs == [token : Tokens, zero : BOOLEAN, dur : Durations \cup {infiniteTimeout},
             expiry : Int, held : BOOLEAN]

ASSUME LocksAssumption ==
    /\ Names \subseteq Seq(Elems)
    /\ IsFiniteSet(Names)
    /\ \A n \in Names : walkToRoot[n] \subseteq Names
    /\ Durations \subseteq Int
    /\ MaxGen \in Nat /\ MaxClock \in Nat
    /\ None \notin Names \cup Nat \cup LockRecs

VARIABLES
    ref,      \* per node: refCount
    lock,     \* per node: its lock, None when its token is ""
    byToken,  \* the node a token stands for
    byExpiry, \* the nodes in the heap
    gen,      \* the last token made
    clock,
    req,      \* per request: its local state
    given     \* the tokens LOCK has answered with

ls == <<ref, lock, byToken, byExpiry, gen>>
vars == <<ls, clock, req, given>>
-----------------------------------------------------------------------------
Idle == [pc |-> "idle"]

Init ==
    /\ ref = [n \in Names |-> 0]
    /\ lock = [n \in Names |-> None]
    /\ byToken = [t \in Tokens |-> None]
    /\ byExpiry = {}
    /\ gen = 0
    /\ clock = 0
    /\ req = [r \in Reqs |-> Idle]
    /\ given = {}

Goto(r, local) == req' = [req EXCEPT ![r] = local]

Locked(n) == lock[n] # None

(* A variant of Covers: every lock has infinite depth.                     *)
CoversSlip(m, n) == Locked(m) /\ m \in walkToRoot[n]

(* The lock at m covers n: the condition lookup looks for.                 *)
Covers(m, n) ==
    /\ Locked(m)
    /\ n = m \/ (~lock[m].zero /\ m \in walkToRoot[n])

(* What collectExpiredNodes(now) removes.                                  *)
Expired(now) == {n \in byExpiry : lock[n].expiry <= now}

(* A variant of RefWithout: the ancestors are not counted down.            *)
RefWithoutSlip(E) == [m \in Names |-> IF m \in E THEN ref[m] - 1 ELSE ref[m]]

(* remove, applied to the nodes of E: the counts, the locks and the tokens *)
(* that are left.                                                          *)
RefWithout(E) ==
    [m \in Names |-> ref[m] - Cardinality({n \in E : m \in walkToRoot[n]})]

LockWithout(E) == [n \in Names |-> IF n \in E THEN None ELSE lock[n]]

TokenWithout(E) ==
    [t \in Tokens |-> IF byToken[t] \in E THEN None ELSE byToken[t]]

remove(E) ==
    /\ ref' = RefWithout(E)
    /\ lock' = LockWithout(E)
    /\ byToken' = TokenWithout(E)
    /\ byExpiry' = byExpiry \ E
    /\ UNCHANGED gen

(* canCreate, once the expired locks E are gone: the name itself has no    *)
(* lock and, for a lock of infinite depth, none below it; no ancestor has  *)
(* a lock of infinite depth.                                               *)
canCreate(E, name, zero) ==
    \A m \in walkToRoot[name] : RefWithout(E)[m] # 0 =>
       IF m = name THEN LockWithout(E)[m] = None /\ zero
                   ELSE LockWithout(E)[m] # None => LockWithout(E)[m].zero

(* Create of a lock that can be had.                                       *)
Create(now, name, zero, dur) ==
    LET E == Expired(now) IN
    /\ canCreate(E, name, zero) /\ gen < MaxGen
    /\ gen' = gen + 1
    /\ ref' = [m \in Names |-> RefWithout(E)[m] + (IF m \in walkToRoot[name] THEN 1 ELSE 0)]
    /\ lock' = [LockWithout(E) EXCEPT
         ![name] = [token |-> gen + 1, zero |-> zero, dur |-> dur,
                    expiry |-> IF dur >= 0 THEN now + dur ELSE 0, held |-> FALSE]]
    /\ byToken' = [TokenWithout(E) EXCEPT ![gen + 1] = name]
    /\ byExpiry' = (byExpiry \ E) \cup (IF dur >= 0 THEN {name} ELSE {})

(* Create of one that cannot: ErrLocked.                                   *)
Refused(now, name, zero) ==
    /\ ~canCreate(Expired(now), name, zero)
    /\ remove(Expired(now))

(* The node of a token after the expired ones are gone, or None.           *)
NodeOf(now, t) == TokenWithout(Expired(now))[t]

(* A variant of Unlock that does not ask whether the lock is held.         *)
UnlockSlip(now, t) ==
    LET n == NodeOf(now, t) IN
    remove(Expired(now) \cup (IF n # None THEN {n} ELSE {}))

(* Unlock: ErrNoSuchLock, ErrLocked or removed.                            *)
Unlock(now, t) ==
    LET n == NodeOf(now, t) IN
    remove(Expired(now) \cup (IF n # None /\ ~lock[n].held THEN {n} ELSE {}))
-----------------------------------------------------------------------------
(* A request arrives: its handler reads the clock.  What it asks for is    *)
(* chosen when it enters its first critical section.                       *)
Arrive(r) ==
    /\ req[r].pc = "idle"
    /\ Goto(r, [pc |-> "arrived", now |-> clock])
    /\ UNCHANGED <<ls, clock, given>>

(* LOCK.  The name of a lock is joined with the base path of the user.     *)

Join(p) == Base \o p

Paths == {p \in Names : Join(p) \in Names}

LockCreate(r) ==
    /\ req[r].pc = "arrived"
    /\ \E p \in Paths, zero \in BOOLEAN, dur \in Durations :
       \/ /\ Create(req[r].now, Join(p), zero, dur)
          /\ given' = given \cup {gen + 1}
       \/ /\ Refused(req[r].now, Join(p), zero)
          /\ UNCHANGED given
    /\ Goto(r, Idle)
    /\ UNCHANGED clock

(* LOCK without a body refreshes: a lock that is there and not held gets a *)
(* new expiry.                                                             *)
Refresh(r) ==
    LET now == req[r].now
        E   == Expired(now)
    IN  /\ req[r].pc = "arrived"
        /\ \E t \in given, dur \in Durations :
           LET n == NodeOf(now, t) IN
           IF n = None \/ lock[n].held THEN remove(E)
           ELSE /\ ref' = RefWithout(E)
                /\ byToken' = TokenWithout(E)
                /\ lock' = [LockWithout(E) EXCEPT
                     ![n] = [lock[n] EXCEPT !.dur = dur,
                                            !.expiry = IF dur >= 0 THEN now + dur ELSE @]]
                /\ byExpiry' = (byExpiry \ (E \cup {n})) \cup (IF dur >= 0 THEN {n} ELSE {})
                /\ UNCHANGED gen
        /\ Goto(r, Idle)
        /\ UNCHANGED <<clock, given>>

(* UNLOCK.                                                                 *)
UnlockToken(r) ==
    /\ req[r].pc = "arrived"
    /\ \E t \in given : Unlock(req[r].now, t)
    /\ Goto(r, Idle)
    /\ UNCHANGED <<clock, given>>
-----------------------------------------------------------------------------
(* Requests that write.  PUT, DELETE, MKCOL and PROPPATCH claim the path   *)
(* of the request as it is; COPY claims its destination and MOVE both      *)
(* names, joined with the base path.  touches is what they write to.       *)
Writes ==
    LET joined == {Join(p) : p \in Paths}
    IN  {[src |-> p, dst |-> None, touches |-> {Join(p)}] : p \in Paths}
        \cup {[src |-> None, dst |-> q, touches |-> {q}] : q \in joined}
        \cup {[src |-> w[1], dst |-> w[2], touches |-> {w[1], w[2]}] :
                 w \in {v \in joined \X joined : v[1] # v[2]}}

(* confirmLocks without an If header: a temporary lock of depth 0 on each  *)
(* name, first the source's, then the destination's.  st and dt are the    *)
(* locks made so far.                                                      *)
ClaimFirst(r) ==
    /\ req[r].pc = "arrived"
    /\ \E w \in Writes :
       LET name == IF w.src # None THEN w.src ELSE w.dst
           q    == [pc |-> IF w.src # None /\ w.dst # None THEN "claim" ELSE "active",
                    now |-> req[r].now, write |-> w,
                    st |-> IF w.src # None THEN gen + 1 ELSE None,
                    dt |-> IF w.src # None THEN None ELSE gen + 1]
       IN  \/ Create(req[r].now, name, TRUE, infiniteTimeout) /\ Goto(r, q)
           \/ Refused(req[r].now, name, TRUE) /\ Goto(r, Idle)
    /\ UNCHANGED <<clock, given>>

(* A variant of ClaimDst that forgets the first lock when it fails.        *)
ClaimDstSlip(r) ==
    LET q == req[r] IN
    /\ q.pc = "claim"
    /\ \/ /\ Create(q.now, q.write.dst, TRUE, infiniteTimeout)
          /\ Goto(r, [q EXCEPT !.dt = gen + 1, !.pc = "active"])
       \/ /\ Refused(q.now, q.write.dst, TRUE)
          /\ Goto(r, Idle)
    /\ UNCHANGED <<clock, given>>

ClaimDst(r) ==
    LET q == req[r] IN
    /\ q.pc = "claim"
    /\ \/ /\ Create(q.now, q.write.dst, TRUE, infiniteTimeout)
          /\ Goto(r, [q EXCEPT !.dt = gen + 1, !.pc = "active"])
       \/ /\ Refused(q.now, q.write.dst, TRUE)
          /\ Goto(r, [q EXCEPT !.pc = "release"])
    /\ UNCHANGED <<clock, given>>

(* The release function, also after a claim that failed half way: the lock *)
(* of the destination, then the one of the source.                         *)
ReleasePlain(r) ==
    LET q == req[r] IN
    /\ q.pc \in {"active", "release"}
    /\ IF q.dt # None
       THEN /\ Unlock(q.now, q.dt)
            /\ Goto(r, IF q.st = None THEN Idle ELSE [q EXCEPT !.pc = "release", !.dt = None])
       ELSE /\ Unlock(q.now, q.st)
            /\ Goto(r, Idle)
    /\ UNCHANGED <<clock, given>>

(* lookup, when the conditions are the tokens clients were given: the      *)
(* nodes that cover the name and are free.                                 *)
lookup(now, name) ==
    {n \in {NodeOf(now, t) : t \in given} \ {None} : Covers(n, name) /\ ~lock[n].held}

(* The names a list of an If header is about: its resource tag or the path *)
(* of the request, and the destination.                                    *)
Listed == {{m, d} \ {None} : m \in Names, d \in {Join(p) : p \in Paths} \cup {None}}

(* confirmLocks with an If header, one of its lists: Confirm finds a node  *)
(* for every name and holds them all, or holds nothing.  A held node is    *)
(* not in the heap.  The conditions may leave out any lock, so a Confirm   *)
(* may always fail; a request with several lists does this again.          *)
Confirm(r) ==
    LET now == req[r].now
        E   == Expired(now)
    IN  /\ req[r].pc = "arrived"
        /\ \/ \E C \in Listed : \E f \in [C -> Names] :
                /\ \A n \in C : f[n] \in lookup(now, n)
                /\ LET H == {f[n] : n \in C} IN
                   /\ lock' = [n \in Names |-> IF n \in H THEN [lock[n] EXCEPT !.held = TRUE]
                                               ELSE LockWithout(E)[n]]
                   /\ byExpiry' = byExpiry \ (E \cup H)
                   /\ Goto(r, [pc |-> "holding", claims |-> C, holds |-> H])
                /\ ref' = RefWithout(E)
                /\ byToken' = TokenWithout(E)
                /\ UNCHANGED gen
           \/ /\ remove(E)
              /\ Goto(r, Idle)
        /\ UNCHANGED <<clock, given>>

(* unhold: a lock with a timeout goes back to the heap.                    *)
ReleaseHeld(r) ==
    LET H == req[r].holds IN
    /\ req[r].pc = "holding"
    /\ lock' = [n \in Names |-> IF n \in H THEN [lock[n] EXCEPT !.held = FALSE] ELSE lock[n]]
    /\ byExpiry' = byExpiry \cup {n \in H : lock[n].dur >= 0}
    /\ Goto(r, Idle)
    /\ UNCHANGED <<ref, byToken, gen, clock, given>>

Tick ==
    /\ clock < MaxClock /\ clock' = clock + 1
    /\ UNCHANGED <<ls, req, given>>
-----------------------------------------------------------------------------
Step(r) ==
    \/ Arrive(r) \/ LockCreate(r) \/ Refresh(r) \/ UnlockToken(r)
    \/ ClaimFirst(r) \/ ClaimDst(r) \/ ReleasePlain(r)
    \/ Confirm(r) \/ ReleaseHeld(r)

Next == Tick \/ \E r \in Reqs : Step(r)

Spec == Init /\ [][Next]_vars
-----------------------------------------------------------------------------
(* The names a request has locked or confirmed while it works.             *)
Claims(r) ==
    IF req[r].pc = "active" THEN {req[r].write.src, req[r].write.dst} \ {None}
    ELSE IF req[r].pc = "holding" THEN req[r].claims
    ELSE {}

(* No two locks conflict: below a lock of infinite depth nothing else is   *)
(* locked (canCreate).                                                     *)
NoConflict ==
    \A m, n \in Names :
       Locked(m) /\ Locked(n) /\ m # n /\ m \in walkToRoot[n] => lock[m].zero

(* Confirm and the temporary locks give exclusive access: no two requests  *)
(* that are at work claim the same name.                                   *)
ExclusiveAccess ==
    \A r, s \in Reqs : r # s => Claims(r) \cap Claims(s) = {}

(* refCount is the number of locks at a node and below it: a node stays    *)
(* exactly as long as it is needed.                                        *)
RefCounts ==
    \A m \in Names : ref[m] = Cardinality({n \in Names : Locked(n) /\ m \in walkToRoot[n]})

(* The locks a request holds stay its own until it releases them: neither  *)
(* expiry nor UNLOCK takes them, and unhold finds them held.               *)
HeldStays ==
    \A r \in Reqs : req[r].pc = "holding" =>
       \A n \in req[r].holds :
          /\ Locked(n) /\ lock[n].held
          /\ \A s \in Reqs : s # r /\ req[s].pc = "holding" => n \notin req[s].holds

(* Every lock with a timeout that nobody holds is in the heap, so that it  *)
(* will expire; no other node is.                                          *)
ExpiryComplete == byExpiry = {n \in Names : Locked(n) /\ lock[n].dur >= 0 /\ ~lock[n].held}

(* The locks under way of a request without an If header.                  *)
TempTokens(r) ==
    IF req[r].pc \in {"claim", "active", "release"} THEN {req[r].st, req[r].dt} \ {None} ELSE {}

(* A temporary lock goes with its request: every lock was given to a       *)
(* client or belongs to a request under way (confirmLocks, when only the   *)
(* second lock fails).                                                     *)
NoLeakedLock ==
    \A n \in Names : Locked(n) =>
       lock[n].token \in given \/ \E r \in Reqs : lock[n].token \in TempTokens(r)

(* "we create temporary locks that would conflict with another client's    *)
(* locks" (confirmLocks): what two requests with such locks write to does  *)
(* not overlap.                                                            *)
WritesExclusive ==
    \A r, s \in Reqs :
       r # s /\ req[r].pc = "active" /\ req[s].pc = "active"
          => req[r].write.touches \cap req[s].write.touches = {}

ReqStates == {"idle", "arrived", "claim", "active", "release", "holding"}

(* Every variable keeps its type.                                          *)
TypeOK ==
    /\ ref \in [Names -> Nat]
    /\ lock \in [Names -> LockRecs \cup {None}]
    /\ byToken \in [Tokens -> Names \cup {None}]
    /\ byExpiry \subseteq Names
    /\ gen \in 0 .. MaxGen
    /\ clock \in 0 .. MaxClock
    /\ \A r \in Reqs : req[r].pc \in ReqStates
    /\ given \subseteq 1 .. gen
=============================================================================
