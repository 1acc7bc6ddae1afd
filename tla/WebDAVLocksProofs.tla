------------------------- MODULE WebDAVLocksProofs --------------------------
(***************************************************************************)
(* Theorems about WebDAVLocks, for every set of names, requests, timeouts  *)
(* and tokens: the lock table is consistent (NoConflict, RefCounts,        *)
(* ExpiryComplete), held locks stay with their request (HeldStays), access *)
(* is exclusive (ExclusiveAccess) and no temporary lock is left behind     *)
(* (NoLeakedLock).                                                         *)
(*                                                                         *)
(* First comes the inductive invariant IInv and what the critical sections *)
(* of the lock system do to it: the lock table as such (Table), then the   *)
(* table together with the requests that rely on its locks.                *)
(***************************************************************************)
EXTENDS WebDAVLocks, FiniteSetTheorems, TLAPS


(* A lock table: counts R, locks L, tokens T, heap X and the last token g. *)
Below(L, m) == {n \in Names : L[n] # None /\ m \in walkToRoot[n]}

Typed(R, L, T, X, g) ==
    /\ R \in [Names -> Int]
    /\ L \in [Names -> LockRecs \cup {None}]
    /\ T \in [Tokens -> Names \cup {None}]
    /\ X \subseteq Names
    /\ g \in 0 .. MaxGen

(* A token leads to the node that has it, and back.                        *)
TokensMatch(L, T, g) ==
    /\ \A n \in Names : L[n] # None => L[n].token \in 1 .. g /\ T[L[n].token] = n
    /\ \A t \in Tokens : T[t] # None => L[T[t]] # None /\ L[T[t]].token = t

Apart(L) ==
    \A m, n \in Names : L[m] # None /\ L[n] # None /\ m # n /\ m \in walkToRoot[n] => L[m].zero

Counted(R, L) == \A m \in Names : R[m] = Cardinality(Below(L, m))

Queued(L, X) == X = {n \in Names : L[n] # None /\ L[n].dur >= 0 /\ ~L[n].held}

Table(R, L, T, X, g) ==
    Typed(R, L, T, X, g) /\ TokensMatch(L, T, g) /\ Apart(L) /\ Counted(R, L) /\ Queued(L, X)

TableInv == Table(ref, lock, byToken, byExpiry, gen)

(* The table without the locks at the nodes of E.                          *)
RemR(R, E) == [m \in Names |-> R[m] - Cardinality({n \in E : m \in walkToRoot[n]})]

RemL(L, E) == [n \in Names |-> IF n \in E THEN None ELSE L[n]]

RemT(T, E) == [t \in Tokens |-> IF T[t] \in E THEN None ELSE T[t]]

(* The local states of requests without an If header.                      *)
Writings == [src : Names \cup {None}, dst : Names \cup {None}, touches : SUBSET Names]

Plains == [pc : {"claim", "active", "release"}, now : Nat, write : Writings,
           st : Tokens \cup {None}, dt : Tokens \cup {None}]

ReqTyped ==
    /\ clock \in 0 .. MaxClock
    /\ given \subseteq 1 .. gen
    /\ DOMAIN req = Reqs
    /\ \A r \in Reqs :
       /\ req[r].pc \in ReqStates
       /\ req[r].pc = "arrived" => req[r].now \in Nat
       /\ req[r].pc \in {"claim", "active", "release"} => req[r] \in Plains
       /\ req[r].pc = "holding" => req[r].holds \subseteq Names /\ req[r].claims \subseteq Names

(* A temporary lock: of depth 0, without a timeout, free and of no client. *)
Temporary(t, n) ==
    /\ t \notin given
    /\ n \in Names
    /\ byToken[t] = n
    /\ lock[n].zero /\ lock[n].dur = infiniteTimeout /\ ~lock[n].held

Plain(q) ==
    /\ q.st # None => Temporary(q.st, q.write.src)
    /\ q.dt # None => Temporary(q.dt, q.write.dst)
    /\ q.pc = "claim" => q.st # None /\ q.dt = None /\ q.write.dst # None
    /\ q.pc = "active" => (q.write.src = None <=> q.st = None) /\ (q.write.dst = None <=> q.dt = None)
    /\ q.pc = "release" => q.dt = None
    /\ q.pc # "claim" => q.st # None \/ q.dt # None
    /\ q.st = q.dt => q.st = None

Holding(q) == \A c \in q.claims : \E h \in q.holds : Covers(h, c)

Requesting ==
    /\ \A r \in Reqs : req[r].pc \in {"claim", "active", "release"} => Plain(req[r])
    /\ \A r, s \in Reqs : r # s => TempTokens(r) \cap TempTokens(s) = {}
    /\ \A r \in Reqs : req[r].pc = "holding" => Holding(req[r])
    /\ \A n \in Names : Locked(n) /\ lock[n].held => lock[n].token \in given

IInv == TableInv /\ ReqTyped /\ HeldStays /\ Requesting /\ NoLeakedLock
-----------------------------------------------------------------------------
(* What the assumption says of single constants.                           *)
LEMMA Constants ==
    /\ Durations \subseteq Int /\ MaxGen \in Nat /\ MaxClock \in Nat
    /\ None \notin Names /\ None \notin Nat /\ None \notin LockRecs
BY LocksAssumption, Zenon

(* What the type of the table says of its tokens.                          *)
LEMMA GenFacts ==
    ASSUME TableInv
    PROVE  /\ gen \in Nat /\ gen <= MaxGen
           /\ \A t \in 1 .. gen : t \in Tokens /\ t # gen + 1
           /\ gen < MaxGen => gen + 1 \in Tokens
           /\ gen + 1 # None
<1>1. gen \in 0 .. MaxGen
    BY Zenon DEF TableInv, Table, Typed
<1> QED
    BY <1>1, Constants DEF Tokens

(* walkToRoot goes from a name to the root: it visits the name itself, and *)
(* all that it visits from what it visits; of two names it visits one lies *)
(* on the way from the other, and never both ways.                         *)
LEMMA SubSeqPrefix ==
    ASSUME NEW n \in Seq(Elems), NEW i \in 0 .. Len(n)
    PROVE  /\ SubSeq(n, 1, i) \in Seq(Elems)
           /\ Len(SubSeq(n, 1, i)) = i
           /\ \A k \in 1 .. i : SubSeq(n, 1, i)[k] = n[k]
           /\ SubSeq(n, 1, Len(n)) = n
OBVIOUS

(* A prefix of a prefix is a prefix.                                       *)
LEMMA SubSeqTwice ==
    ASSUME NEW n \in Seq(Elems), NEW i \in 0 .. Len(n), NEW j \in 0 .. i
    PROVE  SubSeq(SubSeq(n, 1, i), 1, j) = SubSeq(n, 1, j)
OBVIOUS

(* What walkToRoot visits.                                                 *)
LEMMA WalkFacts ==
    ASSUME NEW n \in Names
    PROVE  /\ n \in walkToRoot[n]
           /\ walkToRoot[n] \subseteq Names
           /\ \A m \in walkToRoot[n] : walkToRoot[m] \subseteq walkToRoot[n]
           /\ \A m \in walkToRoot[n] : n \in walkToRoot[m] => m = n
           /\ \A l, m \in walkToRoot[n] : l \in walkToRoot[m] \/ m \in walkToRoot[l]
<1>1. n \in Seq(Elems) /\ Len(n) \in Nat
    BY LocksAssumption
<1>2. \A m \in Names : walkToRoot[m] = {SubSeq(m, 1, i) : i \in 0 .. Len(m)}
    BY Zenon DEF walkToRoot
<1>3. n \in walkToRoot[n]
    BY <1>1, <1>2, SubSeqPrefix
<1>4. walkToRoot[n] \subseteq Names
    BY LocksAssumption, Zenon
<1>5. ASSUME NEW l \in walkToRoot[n], NEW m \in walkToRoot[n], Len(l) <= Len(m)
      PROVE  l \in walkToRoot[m]
    <2>1. PICK i \in 0 .. Len(n) : m = SubSeq(n, 1, i)
        BY <1>2, Zenon
    <2>2. PICK j \in 0 .. Len(n) : l = SubSeq(n, 1, j)
        BY <1>2, Zenon
    <2>3. Len(m) = i /\ Len(l) = j
        BY <1>1, <2>1, <2>2, SubSeqPrefix, Zenon
    <2>4. j \in 0 .. Len(m) /\ j \in 0 .. i
        BY <1>5, <2>3
    <2>5. l = SubSeq(m, 1, j)
        BY <1>1, <2>1, <2>2, <2>4, SubSeqTwice, Zenon
    <2> QED
        BY <1>2, <1>4, <2>4, <2>5, Zenon
<1>6. ASSUME NEW m \in walkToRoot[n], NEW l \in walkToRoot[m]
      PROVE  l \in walkToRoot[n] /\ Len(l) <= Len(m) /\ Len(m) \in Nat /\ (Len(l) = Len(m) => l = m)
    <2>1. PICK i \in 0 .. Len(n) : m = SubSeq(n, 1, i)
        BY <1>2, Zenon
    <2>2. Len(m) = i /\ m \in Seq(Elems)
        BY <1>1, <2>1, SubSeqPrefix, Zenon
    <2>3. PICK j \in 0 .. Len(m) : l = SubSeq(m, 1, j)
        BY <1>2, <1>4, Zenon
    <2>4. l = SubSeq(n, 1, j) /\ j \in 0 .. Len(n)
        BY <1>1, <2>1, <2>2, <2>3, SubSeqTwice
    <2>5. Len(l) = j /\ SubSeq(m, 1, Len(m)) = m
        BY <2>2, <2>3, SubSeqPrefix, Zenon
    <2>6. l \in walkToRoot[n]
        BY <1>2, <2>4, Zenon
    <2>7. Len(l) <= Len(m) /\ Len(m) \in Nat
        BY <2>2, <2>3, <2>5
    <2>8. ASSUME Len(l) = Len(m) PROVE l = m
        BY <2>3, <2>5, <2>8, Zenon
    <2> QED
        BY <2>6, <2>7, <2>8, Zenon
<1>7. \A m \in walkToRoot[n] : Len(m) \in Nat
    BY <1>1, <1>2, SubSeqPrefix
<1>8. ASSUME NEW m \in walkToRoot[n], n \in walkToRoot[m] PROVE m = n
    BY <1>3, <1>6, <1>7, <1>8
<1> QED
    BY <1>3, <1>4, <1>5, <1>6, <1>7, <1>8
-----------------------------------------------------------------------------
(* Sets of names are finite, and taking locks away or adding one changes   *)
(* the sets refCount counts as it should.                                  *)
LEMMA BelowFinite ==
    ASSUME NEW L, NEW m PROVE IsFiniteSet(Below(L, m)) /\ Cardinality(Below(L, m)) \in Nat
<1>1. Below(L, m) \subseteq Names
    BY Zenon DEF Below
<1> QED
    BY <1>1, LocksAssumption, FS_Subset, FS_CardinalityType, Zenon

(* Without the locks of E, a count loses those of E at the node and below. *)
LEMMA CountWithout ==
    ASSUME NEW L \in [Names -> LockRecs \cup {None}], NEW E \in SUBSET Names,
           \A n \in E : L[n] # None, NEW m
    PROVE  /\ Cardinality({n \in E : m \in walkToRoot[n]}) \in Nat
           /\ Cardinality(Below(RemL(L, E), m))
              = Cardinality(Below(L, m)) - Cardinality({n \in E : m \in walkToRoot[n]})
<1> DEFINE D == {n \in E : m \in walkToRoot[n]}
<1>1. D \subseteq Names /\ IsFiniteSet(D) /\ Cardinality(D) \in Nat
    BY LocksAssumption, FS_Subset, FS_CardinalityType, Zenon
<1>2. Below(RemL(L, E), m) = Below(L, m) \ D
    BY Zenon DEF Below, RemL
<1>3. Below(L, m) \cap D = D
    BY Zenon DEF Below
<1>4. Cardinality(Below(L, m) \ D) = Cardinality(Below(L, m)) - Cardinality(Below(L, m) \cap D)
    BY BelowFinite, FS_Difference, Zenon
<1> QED
    BY <1>1, <1>2, <1>3, <1>4, Zenon

(* With a lock at x, the counts of x and of its ancestors grow by 1.       *)
LEMMA CountWith ==
    ASSUME NEW L \in [Names -> LockRecs \cup {None}], NEW x \in Names, L[x] = None, NEW L2,
           \A n \in Names : L2[n] # None <=> (n = x \/ L[n] # None), NEW m \in Names
    PROVE  Cardinality(Below(L2, m)) = Cardinality(Below(L, m)) + (IF m \in walkToRoot[x] THEN 1 ELSE 0)
<1>1. CASE m \in walkToRoot[x]
    <2>1. Below(L2, m) = Below(L, m) \cup {x}
        BY <1>1, Zenon DEF Below
    <2>2. x \notin Below(L, m)
        BY Zenon DEF Below
    <2> QED
        BY <1>1, <2>1, <2>2, BelowFinite, FS_AddElement, Zenon
<1>2. CASE m \notin walkToRoot[x]
    <2>1. Below(L2, m) = Below(L, m)
        BY <1>2, Zenon DEF Below
    <2> QED
        BY <1>2, <2>1, BelowFinite
<1> QED
    BY <1>1, <1>2, Zenon

(* remove keeps the table in order.                                        *)
LEMMA TableWithout ==
    ASSUME NEW R, NEW L, NEW T, NEW X, NEW g, Table(R, L, T, X, g),
           NEW E \in SUBSET Names, \A n \in E : L[n] # None
    PROVE  Table(RemR(R, E), RemL(L, E), RemT(T, E), X \ E, g)
<1> USE DEF Table
<1>1. Typed(RemR(R, E), RemL(L, E), RemT(T, E), X \ E, g)
    <2>1. ASSUME NEW m \in Names PROVE R[m] - Cardinality({n \in E : m \in walkToRoot[n]}) \in Int
        <3>1. L \in [Names -> LockRecs \cup {None}] /\ R[m] \in Int
            BY Zenon DEF Typed
        <3>2. Cardinality({n \in E : m \in walkToRoot[n]}) \in Nat
            BY <3>1, CountWithout, Zenon
        <3> QED
            BY <3>1, <3>2
    <2> QED
        BY <2>1, Zenon DEF Typed, RemR, RemL, RemT
<1>2. TokensMatch(RemL(L, E), RemT(T, E), g)
    <2>1. \A n \in Names : RemL(L, E)[n] = IF n \in E THEN None ELSE L[n]
        BY Zenon DEF RemL
    <2>2. \A t \in Tokens : RemT(T, E)[t] = IF T[t] \in E THEN None ELSE T[t]
        BY Zenon DEF RemT
    <2>3. \A t \in 1 .. g : t \in Tokens
        BY Constants DEF Typed, Tokens
    <2> QED
        BY <2>1, <2>2, <2>3 DEF TokensMatch, Typed
<1>3. Apart(RemL(L, E))
    BY Zenon DEF Apart, RemL
<1>4. Counted(RemR(R, E), RemL(L, E))
    <2>1. ASSUME NEW m \in Names PROVE RemR(R, E)[m] = Cardinality(Below(RemL(L, E), m))
        BY CountWithout DEF Counted, RemR, Typed
    <2> QED
        BY <2>1, Zenon DEF Counted
<1>5. Queued(RemL(L, E), X \ E)
    BY Zenon DEF Queued, RemL
<1> QED
    BY <1>1, <1>2, <1>3, <1>4, <1>5, Zenon

(* A new lock, with the next token, at a name where it conflicts with no   *)
(* other.                                                                  *)
LEMMA TableWith ==
    ASSUME NEW R, NEW L, NEW T, NEW X, NEW g, Table(R, L, T, X, g), g + 1 \in Tokens,
           NEW x \in Names, L[x] = None, NEW rec \in LockRecs,
           rec.token = g + 1, ~rec.held,
           \A m \in walkToRoot[x] : m # x /\ L[m] # None => L[m].zero,
           ~rec.zero => \A n \in Names : L[n] # None => x \notin walkToRoot[n]
    PROVE  Table([m \in Names |-> R[m] + (IF m \in walkToRoot[x] THEN 1 ELSE 0)],
                 [L EXCEPT ![x] = rec], [T EXCEPT ![g + 1] = x],
                 X \cup (IF rec.dur >= 0 THEN {x} ELSE {}), g + 1)
<1> DEFINE L2 == [L EXCEPT ![x] = rec]
           T2 == [T EXCEPT ![g + 1] = x]
           R2 == [m \in Names |-> R[m] + (IF m \in walkToRoot[x] THEN 1 ELSE 0)]
<1> USE DEF Table
<1>0. rec # None /\ g \in Nat /\ None \notin Names
    BY Constants DEF Typed
<1>1. L2 \in [Names -> LockRecs \cup {None}] /\ \A n \in Names : L2[n] = IF n = x THEN rec ELSE L[n]
    BY Zenon DEF Typed
<1>2. T2 \in [Tokens -> Names \cup {None}] /\ \A t \in Tokens : T2[t] = IF t = g + 1 THEN x ELSE T[t]
    BY Zenon DEF Typed
<1>3. Typed(R2, L2, T2, X \cup (IF rec.dur >= 0 THEN {x} ELSE {}), g + 1)
    <2>1. R2 \in [Names -> Int]
        BY DEF Typed
    <2>2. g + 1 \in 0 .. MaxGen
        BY Constants DEF Tokens
    <2> HIDE DEF R2, L2, T2
    <2> QED
        BY <1>1, <1>2, <2>1, <2>2, Zenon DEF Typed
<1>4. TokensMatch(L2, T2, g + 1)
    <2> HIDE DEF L2, T2
    <2>1. \A t \in 1 .. g : t \in Tokens /\ t # g + 1 /\ t \in 1 .. g + 1
        BY <1>0, Constants DEF Tokens, Typed
    <2>2. ASSUME NEW n \in Names, L2[n] # None
          PROVE  L2[n].token \in 1 .. g + 1 /\ T2[L2[n].token] = n
        BY <1>0, <1>1, <1>2, <2>1, <2>2 DEF TokensMatch
    <2>3. ASSUME NEW t \in Tokens, T2[t] # None
          PROVE  L2[T2[t]] # None /\ L2[T2[t]].token = t
        <3>1. T[t] # None /\ t # g + 1 => T[t] \in Names /\ T[t] # x
            BY DEF Typed, TokensMatch
        <3> QED
            BY <1>0, <1>1, <1>2, <2>3, <3>1 DEF TokensMatch
    <2> QED
        BY <2>2, <2>3, Zenon DEF TokensMatch
<1>5. Apart(L2)
    <2> HIDE DEF L2
    <2> SUFFICES ASSUME NEW m \in Names, NEW n \in Names, L2[m] # None, L2[n] # None, m # n, m \in walkToRoot[n]
                 PROVE  L2[m].zero
        BY Zenon DEF Apart
    <2>1. CASE m = x
        BY <1>1, <2>1, Zenon
    <2>2. CASE m # x
        BY <1>1, <2>2, Zenon DEF Apart
    <2> QED
        BY <2>1, <2>2, Zenon
<1>6. Counted(R2, L2)
    <2>0. \A n \in Names : L2[n] # None <=> (n = x \/ L[n] # None)
        BY <1>0, <1>1, Zenon
    <2> HIDE DEF L2
    <2>1. ASSUME NEW m \in Names PROVE R2[m] = Cardinality(Below(L2, m))
        <3>1. L \in [Names -> LockRecs \cup {None}] /\ R[m] = Cardinality(Below(L, m))
            BY Zenon DEF Typed, Counted
        <3>2. Cardinality(Below(L2, m)) = Cardinality(Below(L, m)) + (IF m \in walkToRoot[x] THEN 1 ELSE 0)
            BY <2>0, <3>1, CountWith
        <3> QED
            BY <3>1, <3>2, Zenon
    <2> HIDE DEF R2
    <2> QED
        BY <2>1, Zenon DEF Counted
<1>7. Queued(L2, X \cup (IF rec.dur >= 0 THEN {x} ELSE {}))
    <2> HIDE DEF L2
    <2> QED
        BY <1>0, <1>1, Zenon DEF Queued
<1> QED
    BY <1>3, <1>4, <1>5, <1>6, <1>7, Zenon

(* A change of timeouts and of who holds the locks.                        *)
LEMMA TableChanged ==
    ASSUME NEW R, NEW L, NEW T, NEW X, NEW g, Table(R, L, T, X, g),
           NEW L2 \in [Names -> LockRecs \cup {None}],
           \A n \in Names : /\ L2[n] = None <=> L[n] = None
                            /\ L[n] # None => L2[n].token = L[n].token /\ L2[n].zero = L[n].zero,
           NEW X2 \in SUBSET Names, Queued(L2, X2)
    PROVE  Table(R, L2, T, X2, g)
<1> USE DEF Table
<1>1. Typed(R, L2, T, X2, g)
    BY Zenon DEF Typed
<1>2. TokensMatch(L2, T, g)
    BY DEF TokensMatch, Typed
<1>3. Apart(L2)
    BY Zenon DEF Apart
<1>4. \A m : Below(L2, m) = Below(L, m)
    BY Zenon DEF Below
<1>5. Counted(R, L2)
    BY <1>4, Zenon DEF Counted
<1> QED
    BY <1>1, <1>2, <1>3, <1>5, Zenon

(* A count is not 0 where there is a lock at the name or below it.         *)
LEMMA CountedNonzero ==
    ASSUME NEW L, NEW m \in Names, NEW n \in Names, L[n] # None, m \in walkToRoot[n]
    PROVE  Cardinality(Below(L, m)) # 0
<1>1. n \in Below(L, m)
    BY Zenon DEF Below
<1> QED
    BY <1>1, BelowFinite, FS_EmptySet, Zenon

(* RemR, RemL and RemT are what remove does.                               *)
LEMMA WithoutIsRem ==
    ASSUME NEW E
    PROVE  RefWithout(E) = RemR(ref, E) /\ LockWithout(E) = RemL(lock, E) /\ TokenWithout(E) = RemT(byToken, E)
BY Zenon DEF RefWithout, LockWithout, TokenWithout, RemR, RemL, RemT

(* collectExpiredNodes takes only locks that are free.                     *)
LEMMA ExpiredFree ==
    ASSUME TableInv, NEW now, NEW n \in Expired(now)
    PROVE  n \in Names /\ n \in byExpiry /\ lock[n] # None /\ ~lock[n].held /\ lock[n].dur >= 0
BY Zenon DEF TableInv, Table, Queued, Expired

(* remove, as a step.                                                      *)
LEMMA RemoveStep ==
    ASSUME TableInv, NEW E \in SUBSET Names, \A n \in E : lock[n] # None, remove(E)
    PROVE  TableInv'
<1>1. Table(RemR(ref, E), RemL(lock, E), RemT(byToken, E), byExpiry \ E, gen)
    BY TableWithout, Zenon DEF TableInv
<1>2. ref' = RemR(ref, E) /\ lock' = RemL(lock, E) /\ byToken' = RemT(byToken, E) /\ byExpiry' = byExpiry \ E /\ gen' = gen
    BY WithoutIsRem, Zenon DEF remove
<1> QED
    BY <1>1, <1>2, Zenon DEF TableInv

(* Create, as a step: canCreate has seen every lock that could conflict.   *)
LEMMA CreateStep ==
    ASSUME TableInv, NEW now \in Nat, NEW name \in Names, NEW zero \in BOOLEAN,
           NEW dur \in Durations \cup {infiniteTimeout}, Create(now, name, zero, dur)
    PROVE  /\ TableInv'
           /\ gen' = gen + 1
           /\ name \notin Expired(now) => lock[name] = None
           /\ lock'[name].token = gen + 1 /\ lock'[name].zero = zero /\ lock'[name].dur = dur /\ ~lock'[name].held
           /\ byToken'[gen + 1] = name
           /\ \A n \in Names \ {name} : lock'[n] = IF n \in Expired(now) THEN None ELSE lock[n]
           /\ \A t \in 1 .. gen : byToken'[t] = IF byToken[t] \in Expired(now) THEN None ELSE byToken[t]
<1> DEFINE E == Expired(now)
           R == RemR(ref, E)
           L == RemL(lock, E)
           T == RemT(byToken, E)
           rec == [token |-> gen + 1, zero |-> zero, dur |-> dur,
                   expiry |-> IF dur >= 0 THEN now + dur ELSE 0, held |-> FALSE]
<1>1. E \in SUBSET Names /\ \A n \in E : lock[n] # None
    BY ExpiredFree, Zenon
<1>2. Table(R, L, T, byExpiry \ E, gen)
    BY <1>1, TableWithout, Zenon DEF TableInv
<1>3. gen \in Nat /\ gen + 1 \in Tokens
    BY GenFacts, Zenon DEF Create
<1>4. rec \in LockRecs
    <2>1. dur \in Int
        BY Constants DEF infiniteTimeout
    <2>2. (IF dur >= 0 THEN now + dur ELSE 0) \in Int
        BY <2>1
    <2> QED
        BY <1>3, <2>2, Zenon DEF LockRecs
<1>5. /\ canCreate(E, name, zero)
      /\ gen' = gen + 1
      /\ ref' = [m \in Names |-> R[m] + (IF m \in walkToRoot[name] THEN 1 ELSE 0)]
      /\ lock' = [L EXCEPT ![name] = rec]
      /\ byToken' = [T EXCEPT ![gen + 1] = name]
      /\ byExpiry' = (byExpiry \ E) \cup (IF dur >= 0 THEN {name} ELSE {})
    BY WithoutIsRem, Zenon DEF Create
<1>6. \A m \in walkToRoot[name] : R[m] # 0 => IF m = name THEN L[m] = None /\ zero ELSE L[m] # None => L[m].zero
    BY <1>5, WithoutIsRem DEF canCreate
<1> HIDE DEF E, R, L, rec, T
<1>7. \A m, n \in Names : L[n] # None /\ m \in walkToRoot[n] => R[m] # 0
    BY <1>2, CountedNonzero, Zenon DEF Table, Counted
<1>8. L[name] = None
    BY <1>6, <1>7, WalkFacts, Zenon
<1>9. \A m \in walkToRoot[name] : m # name /\ L[m] # None => L[m].zero
    BY <1>6, <1>7, WalkFacts, Zenon
<1>10. ~zero => \A n \in Names : L[n] # None => name \notin walkToRoot[n]
    BY <1>6, <1>7, WalkFacts, Zenon
<1>11. rec.token = gen + 1 /\ rec.held = FALSE /\ rec.zero = zero /\ rec.dur = dur
    BY Zenon DEF rec
<1>12. Table([m \in Names |-> R[m] + (IF m \in walkToRoot[name] THEN 1 ELSE 0)],
             [L EXCEPT ![name] = rec], [T EXCEPT ![gen + 1] = name],
             (byExpiry \ E) \cup (IF rec.dur >= 0 THEN {name} ELSE {}), gen + 1)
    BY <1>2, <1>3, <1>4, <1>8, <1>9, <1>10, <1>11, TableWith, Zenon
<1>13. TableInv'
    BY <1>5, <1>11, <1>12, Zenon DEF TableInv
<1>14. L \in [Names -> LockRecs \cup {None}] /\ T \in [Tokens -> Names \cup {None}]
    BY <1>2, Zenon DEF Table, Typed
<1>15. lock'[name] = rec /\ byToken'[gen + 1] = name
    BY <1>3, <1>5, <1>14, Zenon
<1>16. \A n \in Names \ {name} : lock'[n] = IF n \in Expired(now) THEN None ELSE lock[n]
    BY <1>5, <1>14, Zenon DEF L, RemL, E
<1>17. \A t \in 1 .. gen : byToken'[t] = IF byToken[t] \in Expired(now) THEN None ELSE byToken[t]
    BY <1>3, <1>5, <1>14, Constants DEF T, RemT, E, Tokens
<1>18. name \notin Expired(now) => lock[name] = None
    BY <1>8, Zenon DEF L, RemL, E
<1> QED
    BY <1>5, <1>11, <1>13, <1>15, <1>16, <1>17, <1>18, Zenon
-----------------------------------------------------------------------------
(* The locks the other requests rely on: those they hold, and their        *)
(* temporary ones.                                                         *)
Guarded(r) ==
    {n \in Names : lock[n] # None /\ \E s \in Reqs \ {r} :
        (req[s].pc = "holding" /\ n \in req[s].holds) \/ lock[n].token \in TempTokens(s)}

(* A temporary token leads to a temporary lock, which is never in the      *)
(* heap.                                                                   *)
LEMMA TempFacts ==
    ASSUME IInv, NEW s \in Reqs, NEW t \in TempTokens(s)
    PROVE  /\ t \in 1 .. gen /\ t \in Tokens /\ t \notin given
           /\ byToken[t] \in Names
           /\ lock[byToken[t]] # None /\ lock[byToken[t]].token = t
           /\ lock[byToken[t]].zero /\ lock[byToken[t]].dur = infiniteTimeout /\ ~lock[byToken[t]].held
           /\ byToken[t] \notin byExpiry
<1>1. req[s].pc \in {"claim", "active", "release"} /\ t \in {req[s].st, req[s].dt} /\ t # None
    BY Zenon DEF TempTokens
<1>2. req[s] \in Plains /\ Plain(req[s])
    BY <1>1, Zenon DEF IInv, ReqTyped, Requesting
<1>3. t \in Tokens
    BY <1>1, <1>2, Zenon DEF Plains
<1>4. PICK n \in Names : Temporary(t, n)
    BY <1>1, <1>2, Zenon DEF Plain, Temporary
<1>5. byToken[t] = n /\ t \notin given /\ lock[n].zero /\ lock[n].dur = infiniteTimeout /\ ~lock[n].held
    BY <1>4, Zenon DEF Temporary
<1>6. lock[n] # None /\ lock[n].token = t
    BY <1>3, <1>5, Constants, Zenon DEF IInv, TableInv, Table, TokensMatch
<1>7. t \in 1 .. gen
    BY <1>6, Zenon DEF IInv, TableInv, Table, TokensMatch
<1>8. n \notin byExpiry
    BY <1>5 DEF IInv, TableInv, Table, Queued, infiniteTimeout
<1> QED
    BY <1>3, <1>5, <1>6, <1>7, <1>8, Zenon

(* A guarded lock is held or temporary, and none of r's own.               *)
LEMMA GuardedFacts ==
    ASSUME IInv, NEW r \in Reqs, NEW n \in Guarded(r)
    PROVE  /\ n \in Names /\ lock[n] # None /\ lock[n] \in LockRecs
           /\ n \notin byExpiry
           /\ byToken[lock[n].token] = n
           /\ lock[n].held \/ lock[n].token \notin given
           /\ lock[n].token \notin TempTokens(r)
           /\ req[r].pc = "holding" => n \notin req[r].holds
           /\ lock[n].token \in 1 .. gen
<1>1. n \in Names /\ lock[n] # None /\ lock[n] \in LockRecs /\ byToken[lock[n].token] = n /\ lock[n].token \in 1 .. gen
    BY Zenon DEF Guarded, IInv, TableInv, Table, Typed, TokensMatch
<1>2. PICK s \in Reqs \ {r} : (req[s].pc = "holding" /\ n \in req[s].holds) \/ lock[n].token \in TempTokens(s)
    BY Zenon DEF Guarded
<1>3. CASE req[s].pc = "holding" /\ n \in req[s].holds
    <2>1. lock[n].held
        BY <1>3, Zenon DEF IInv, HeldStays
    <2>2. lock[n].token \in given
        BY <1>1, <2>1, Zenon DEF IInv, Requesting, Locked
    <2>3. lock[n].token \notin TempTokens(r)
        BY <2>2, TempFacts, Zenon
    <2>4. n \notin byExpiry
        BY <2>1, Zenon DEF IInv, TableInv, Table, Queued
    <2>5. req[r].pc = "holding" => n \notin req[r].holds
        BY <1>2, <1>3, Zenon DEF IInv, HeldStays
    <2> QED
        BY <1>1, <2>1, <2>3, <2>4, <2>5, Zenon
<1>4. CASE lock[n].token \in TempTokens(s)
    <2>1. lock[n].token \notin given /\ n \notin byExpiry /\ ~lock[n].held
        BY <1>1, <1>4, TempFacts
    <2>2. lock[n].token \notin TempTokens(r)
        BY <1>2, <1>4, Zenon DEF IInv, Requesting
    <2>3. req[r].pc = "holding" => n \notin req[r].holds
        BY <2>1, Zenon DEF IInv, HeldStays
    <2> QED
        BY <1>1, <2>1, <2>2, <2>3, Zenon
<1> QED
    BY <1>2, <1>3, <1>4, Zenon

(* A step of r that keeps the table in order and the guarded locks as they *)
(* are keeps what the invariant says of the other requests.                *)
LEMMA OthersKept ==
    ASSUME IInv, NEW r \in Reqs, NEW local, req' = [req EXCEPT ![r] = local],
           given' \in {given, given \cup {gen + 1}},
           \A n \in Guarded(r) : lock'[n] = lock[n] /\ byToken'[lock[n].token] = n,
           NEW s \in Reqs \ {r}
    PROVE  /\ req'[s] = req[s] /\ TempTokens(s)' = TempTokens(s)
           /\ req[s].pc \in {"claim", "active", "release"} => Plain(req[s])'
           /\ req[s].pc = "holding" => Holding(req[s])'
           /\ req[s].pc = "holding" => \A n \in req[s].holds : lock'[n] # None /\ lock'[n].held
<1>1. req'[s] = req[s]
    BY Zenon DEF IInv, ReqTyped
<1>2. TempTokens(s)' = TempTokens(s)
    BY <1>1, Zenon DEF TempTokens
<1>3. ASSUME req[s].pc = "holding", NEW n \in req[s].holds
      PROVE  n \in Guarded(r) /\ lock[n].held /\ lock[n] # None
    BY <1>3, Zenon DEF IInv, HeldStays, ReqTyped, Guarded, Locked
<1>4. ASSUME req[s].pc = "holding", NEW n \in req[s].holds
      PROVE  lock'[n] = lock[n] /\ lock'[n] # None /\ lock'[n].held
    BY <1>3, <1>4, Zenon
<1>5. ASSUME req[s].pc = "holding" PROVE Holding(req[s])'
    <2>1. Holding(req[s])
        BY <1>5, Zenon DEF IInv, Requesting
    <2>2. \A c \in req[s].claims : \E h \in req[s].holds : Covers(h, c)
        BY <2>1, Zenon DEF Holding
    <2>3. \A c \in req[s].claims : \E h \in req[s].holds : Covers(h, c)'
        BY <1>4, <1>5, <2>2 DEF Covers, Locked
    <2> QED
        BY <1>1, <2>3, Zenon DEF Holding
<1>6. ASSUME NEW t \in TempTokens(s), NEW n, Temporary(t, n)
      PROVE  Temporary(t, n)'
    <2>1. byToken[t] = n /\ t \notin given /\ lock[n].zero /\ lock[n].dur = infiniteTimeout /\ ~lock[n].held /\ n \in Names
        BY <1>6, Zenon DEF Temporary
    <2>2. t \in 1 .. gen /\ lock[n] # None /\ lock[n].token = t
        BY <1>6, <2>1, TempFacts, Zenon
    <2>3. n \in Guarded(r)
        BY <1>6, <2>1, <2>2, Zenon DEF Guarded
    <2>4. gen \in Nat /\ t # gen + 1
        BY <2>2 DEF IInv, TableInv, Table, Typed
    <2>5. lock'[n] = lock[n] /\ byToken'[t] = n
        BY <2>2, <2>3, Zenon
    <2> QED
        BY <2>1, <2>4, <2>5, Zenon DEF Temporary
<1>7. ASSUME req[s].pc \in {"claim", "active", "release"} PROVE Plain(req[s])'
    <2>1. Plain(req[s])
        BY <1>7, Zenon DEF IInv, Requesting
    <2>2. TempTokens(s) = {req[s].st, req[s].dt} \ {None}
        BY <1>7, Zenon DEF TempTokens
    <2>3. req[s].st # None => Temporary(req[s].st, req[s].write.src)'
        BY <1>1, <1>6, <2>1, <2>2, Zenon DEF Plain
    <2>4. req[s].dt # None => Temporary(req[s].dt, req[s].write.dst)'
        BY <1>1, <1>6, <2>1, <2>2 DEF Plain
    <2> QED
        BY <1>1, <2>1, <2>3, <2>4, Zenon DEF Plain
<1> QED
    BY <1>1, <1>2, <1>4, <1>5, <1>7, Zenon

(* The local state q of a request after a step is in order.                *)
Settled(q) ==
    /\ q.pc \in ReqStates
    /\ q.pc = "arrived" => q.now \in Nat
    /\ q.pc \in {"claim", "active", "release"} => q \in Plains /\ Plain(q)
    /\ q.pc = "holding" => q.holds \subseteq Names /\ q.claims \subseteq Names /\ Holding(q)

Temps(q) == IF q.pc \in {"claim", "active", "release"} THEN {q.st, q.dt} \ {None} ELSE {}

(* Where a lock of the next state comes from: it was there, or r made it.  *)
Inherited(n) ==
    lock[n] # None /\ lock'[n].token = lock[n].token /\ (lock'[n].held => lock[n].held \/ lock[n].token \in given)

(* The step of a request keeps the invariant when it keeps the table in    *)
(* order, leaves the guarded locks alone, and accounts for every lock.     *)
LEMMA StepInv ==
    ASSUME IInv, NEW r \in Reqs, NEW local, req' = [req EXCEPT ![r] = local],
           TableInv', clock' \in 0 .. MaxClock,
           given' \in {given, given \cup {gen + 1}}, given' \subseteq 1 .. gen',
           \A n \in Guarded(r) : lock'[n] = lock[n] /\ byToken'[lock[n].token] = n,
           \A n \in Names : lock'[n] # None =>
              \/ Inherited(n)
              \/ lock'[n].token = gen + 1 /\ ~lock'[n].held /\ gen + 1 \in given' \cup Temps(local),
           Temps(local) \subseteq Temps(req[r]) \cup {gen + 1},
           \A t \in Temps(req[r]) \ Temps(local) : \A n \in Names : lock'[n] # None => lock'[n].token # t,
           Settled(local)',
           local.pc = "holding" =>
              \A n \in local.holds : lock'[n] # None /\ lock'[n].held /\ n \notin Guarded(r)
    PROVE  IInv'
<1>1. req'[r] = local /\ DOMAIN req' = Reqs /\ \A s \in Reqs \ {r} : req'[s] = req[s]
    BY Zenon DEF IInv, ReqTyped
<1>2. /\ TempTokens(r) = Temps(req[r]) /\ TempTokens(r)' = Temps(local)
      /\ \A s \in Reqs \ {r} : TempTokens(s)' = TempTokens(s)
    BY <1>1, Zenon DEF TempTokens, Temps
<1>3. ReqTyped'
    <2>1. ASSUME NEW s \in Reqs
          PROVE  /\ req'[s].pc \in ReqStates
                 /\ req'[s].pc = "arrived" => req'[s].now \in Nat
                 /\ req'[s].pc \in {"claim", "active", "release"} => req'[s] \in Plains
                 /\ req'[s].pc = "holding" => req'[s].holds \subseteq Names /\ req'[s].claims \subseteq Names
        <3>1. CASE s = r
            BY <1>1, <3>1, Zenon DEF Settled
        <3>2. CASE s # r
            BY <1>1, <3>2, Zenon DEF IInv, ReqTyped
        <3> QED
            BY <3>1, <3>2, Zenon
    <2> QED
        BY <1>1, <2>1, Zenon DEF ReqTyped
<1>4. \A s \in Reqs \ {r} :
         /\ req[s].pc \in {"claim", "active", "release"} => Plain(req[s])'
         /\ req[s].pc = "holding" => Holding(req[s])'
         /\ req[s].pc = "holding" => \A n \in req[s].holds : lock'[n] # None /\ lock'[n].held
    BY OthersKept, Zenon
<1>5. HeldStays'
    <2>1. ASSUME NEW s \in Reqs \ {r}, req[s].pc = "holding", NEW n \in req[s].holds
          PROVE  n \in Guarded(r)
        BY <2>1, Zenon DEF IInv, HeldStays, ReqTyped, Guarded, Locked
    <2>2. \A s \in Reqs, t \in Reqs \ {r} : s # t /\ s # r /\ req[s].pc = "holding" /\ req[t].pc = "holding"
             => req[s].holds \cap req[t].holds = {}
        BY Zenon DEF IInv, HeldStays
    <2>3. ASSUME NEW s \in Reqs, req'[s].pc = "holding", NEW n \in req'[s].holds
          PROVE  /\ lock'[n] # None /\ lock'[n].held
                 /\ \A t \in Reqs : t # s /\ req'[t].pc = "holding" => n \notin req'[t].holds
        <3>1. CASE s = r
            BY <1>1, <2>1, <2>3, <3>1
        <3>2. CASE s # r
            BY <1>1, <1>4, <2>1, <2>2, <2>3, <3>2
        <3> QED
            BY <3>1, <3>2, Zenon
    <2> QED
        BY <2>3, Zenon DEF HeldStays, Locked
<1>6. Requesting'
    <2>1. ASSUME NEW s \in Reqs, req'[s].pc \in {"claim", "active", "release"} PROVE Plain(req[s])'
        <3>1. CASE s = r
            BY <1>1, <2>1, <3>1, Zenon DEF Settled, Plain
        <3>2. CASE s # r
            BY <1>1, <1>4, <2>1, <3>2, Zenon
        <3> QED
            BY <3>1, <3>2, Zenon
    <2>2. ASSUME NEW s \in Reqs, req'[s].pc = "holding" PROVE Holding(req[s])'
        <3>1. CASE s = r
            BY <1>1, <2>2, <3>1, Zenon DEF Settled, Holding
        <3>2. CASE s # r
            BY <1>1, <1>4, <2>2, <3>2, Zenon
        <3> QED
            BY <3>1, <3>2, Zenon
    <2>3. \A s \in Reqs, t \in Reqs : s # t => TempTokens(s) \cap TempTokens(t) = {}
        BY Zenon DEF IInv, Requesting
    <2>4. \A s \in Reqs : gen + 1 \notin TempTokens(s)
        <3>1. \A s \in Reqs : \A t \in TempTokens(s) : t \in 1 .. gen
            BY TempFacts, Zenon
        <3>2. gen \in Nat
            BY DEF IInv, TableInv, Table, Typed
        <3> QED
            BY <3>1, <3>2
    <2>5. ASSUME NEW s \in Reqs, NEW t \in Reqs, s # t PROVE TempTokens(s)' \cap TempTokens(t)' = {}
        BY <1>2, <2>3, <2>4, <2>5
    <2>6. ASSUME NEW n \in Names, lock'[n] # None, lock'[n].held PROVE lock'[n].token \in given'
        BY <2>6, Zenon DEF Inherited, IInv, Requesting, Locked
    <2> QED
        BY <2>1, <2>2, <2>5, <2>6, Zenon DEF Requesting, Locked
<1>7. NoLeakedLock'
    <2>1. ASSUME NEW n \in Names, lock'[n] # None
          PROVE  lock'[n].token \in given' \/ \E s \in Reqs : lock'[n].token \in TempTokens(s)'
        <3>1. CASE Inherited(n)
            <4>1. lock[n].token \in given \/ \E s \in Reqs : lock[n].token \in TempTokens(s)
                BY <3>1, Zenon DEF Inherited, IInv, NoLeakedLock, Locked
            <4> QED
                BY <1>2, <2>1, <3>1, <4>1 DEF Inherited
        <3>2. CASE ~Inherited(n)
            BY <1>2, <2>1, <3>2
        <3> QED
            BY <3>1, <3>2, Zenon
    <2> QED
        BY <2>1, Zenon DEF NoLeakedLock, Locked
<1> QED
    BY <1>3, <1>5, <1>6, <1>7, Zenon DEF IInv
-----------------------------------------------------------------------------
(* A request that is over claims nothing.                                  *)
LEMMA IdleSettled == Settled(Idle)' /\ Temps(Idle) = {} /\ Idle.pc = "idle"
BY Zenon DEF Settled, Temps, Idle, ReqStates

(* Critical sections that only remove locks: the expired ones and, for     *)
(* Unlock, one that is not guarded.                                        *)
LEMMA RemovalInv ==
    ASSUME IInv, NEW r \in Reqs, NEW local, req' = [req EXCEPT ![r] = local],
           UNCHANGED <<clock, given>>,
           NEW E \in SUBSET Names, \A n \in E : lock[n] # None /\ n \notin Guarded(r), remove(E),
           Temps(local) \subseteq Temps(req[r]),
           \A t \in Temps(req[r]) \ Temps(local) : byToken[t] \in E,
           Settled(local)', local.pc # "holding"
    PROVE  IInv'
<1>1. TableInv'
    BY RemoveStep, Zenon DEF IInv
<1>2. \A n \in Names : lock'[n] = IF n \in E THEN None ELSE lock[n]
    BY Zenon DEF remove, LockWithout
<1>3. \A t \in Tokens : byToken'[t] = IF byToken[t] \in E THEN None ELSE byToken[t]
    BY Zenon DEF remove, TokenWithout
<1>4. gen' = gen /\ gen \in Nat /\ \A t \in 1 .. gen : t \in Tokens
    BY GenFacts, Zenon DEF remove, IInv
<1>5. ASSUME NEW n \in Guarded(r) PROVE lock'[n] = lock[n] /\ byToken'[lock[n].token] = n
    <2>1. n \in Names /\ byToken[lock[n].token] = n /\ lock[n].token \in 1 .. gen
        BY GuardedFacts, Zenon
    <2> QED
        BY <1>2, <1>3, <1>4, <2>1, Zenon
<1>6. ASSUME NEW n \in Names, lock'[n] # None PROVE Inherited(n)
    BY <1>2, <1>6, Zenon DEF Inherited
<1>7. ASSUME NEW t \in Temps(req[r]) \ Temps(local), NEW n \in Names, lock'[n] # None PROVE lock'[n].token # t
    <2>1. lock'[n] = lock[n] /\ n \notin E /\ lock[n] # None
        BY <1>2, <1>7, Zenon
    <2>2. byToken[lock[n].token] = n
        BY <2>1, Zenon DEF IInv, TableInv, Table, TokensMatch
    <2> QED
        BY <2>1, <2>2, Zenon
<1>8. clock' \in 0 .. MaxClock /\ given' = given /\ given' \subseteq 1 .. gen'
    BY <1>4, Zenon DEF IInv, ReqTyped
<1> QED
    BY <1>1, <1>5, <1>6, <1>7, <1>8, StepInv, Zenon

(* Expired locks are never guarded.                                        *)
LEMMA ExpiredUnguarded ==
    ASSUME IInv, NEW r \in Reqs, NEW now
    PROVE  Expired(now) \in SUBSET Names /\ \A n \in Expired(now) : lock[n] # None /\ n \notin Guarded(r)
BY ExpiredFree, GuardedFacts, Zenon DEF IInv

(* Critical sections that create a lock.                                   *)
LEMMA CreateInv ==
    ASSUME IInv, NEW r \in Reqs, NEW local, req' = [req EXCEPT ![r] = local], UNCHANGED clock,
           NEW now \in Nat, NEW name \in Names, NEW zero \in BOOLEAN,
           NEW dur \in Durations \cup {infiniteTimeout}, Create(now, name, zero, dur),
           given' \in {given, given \cup {gen + 1}}, gen + 1 \in given' \cup Temps(local),
           Temps(req[r]) \subseteq Temps(local), Temps(local) \subseteq Temps(req[r]) \cup {gen + 1},
           Settled(local)', local.pc # "holding"
    PROVE  IInv'
<1>1. /\ TableInv'
      /\ gen' = gen + 1
      /\ name \notin Expired(now) => lock[name] = None
      /\ lock'[name].token = gen + 1 /\ ~lock'[name].held
      /\ \A n \in Names \ {name} : lock'[n] = IF n \in Expired(now) THEN None ELSE lock[n]
      /\ \A t \in 1 .. gen : byToken'[t] = IF byToken[t] \in Expired(now) THEN None ELSE byToken[t]
    BY CreateStep DEF IInv
<1>2. gen \in Nat
    BY DEF IInv, TableInv, Table, Typed
<1>3. ASSUME NEW n \in Guarded(r) PROVE lock'[n] = lock[n] /\ byToken'[lock[n].token] = n
    <2>1. n \in Names /\ lock[n] # None /\ byToken[lock[n].token] = n /\ lock[n].token \in 1 .. gen /\ n \notin Expired(now)
        BY GuardedFacts, ExpiredUnguarded, Zenon
    <2> QED
        BY <1>1, <2>1, Zenon
<1>4. ASSUME NEW n \in Names, lock'[n] # None
      PROVE  \/ Inherited(n)
             \/ lock'[n].token = gen + 1 /\ ~lock'[n].held /\ gen + 1 \in given' \cup Temps(local)
    BY <1>1, <1>4, Zenon DEF Inherited
<1>5. clock' \in 0 .. MaxClock /\ given' \subseteq 1 .. gen'
    BY <1>1, <1>2 DEF IInv, ReqTyped
<1> QED
    BY <1>1, <1>3, <1>4, <1>5, StepInv, Zenon

(* Unlock takes a lock that is free, by its token, which is not one of the *)
(* temporary tokens of another request.                                    *)
LEMMA UnlockInv ==
    ASSUME IInv, NEW r \in Reqs, NEW local, req' = [req EXCEPT ![r] = local],
           UNCHANGED <<clock, given>>,
           NEW now, NEW t \in Tokens, t \in given \cup Temps(req[r]), Unlock(now, t),
           Temps(local) \subseteq Temps(req[r]), Temps(req[r]) \ Temps(local) \subseteq {t},
           Settled(local)', local.pc # "holding"
    PROVE  IInv'
<1> DEFINE n == NodeOf(now, t)
           E == Expired(now) \cup (IF n # None /\ ~lock[n].held THEN {n} ELSE {})
<1>1. remove(E)
    BY Zenon DEF Unlock
<1>2. n = IF byToken[t] \in Expired(now) THEN None ELSE byToken[t]
    BY Zenon DEF NodeOf, TokenWithout
<1>3. n # None => n \in Names /\ lock[n] # None /\ lock[n].token = t
    BY <1>2 DEF IInv, TableInv, Table, Typed, TokensMatch
<1>4. n # None /\ ~lock[n].held => n \notin Guarded(r)
    <2>1. TempTokens(r) = Temps(req[r])
        BY Zenon DEF TempTokens, Temps
    <2> HIDE DEF n
    <2> QED
        BY <1>3, <2>1, GuardedFacts
<1>5. E \in SUBSET Names /\ \A m \in E : lock[m] # None /\ m \notin Guarded(r)
    <2> HIDE DEF n
    <2> QED
        BY <1>3, <1>4, ExpiredUnguarded, Zenon
<1>6. ASSUME NEW u \in Temps(req[r]) \ Temps(local) PROVE byToken[u] \in E
    <2>1. u = t /\ u \in TempTokens(r)
        BY Zenon DEF TempTokens, Temps
    <2>2. byToken[t] \in Names /\ ~lock[byToken[t]].held
        BY <2>1, TempFacts, Zenon
    <2>3. byToken[t] # None
        BY <2>2, Constants, Zenon
    <2> QED
        BY <1>2, <2>1, <2>2, <2>3, Zenon
<1> HIDE DEF E
<1> QED
    BY <1>1, <1>5, <1>6, RemovalInv, Zenon

(* Critical sections that change locks, once the expired ones are gone.    *)
LEMMA ChangeStep ==
    ASSUME TableInv, NEW E \in SUBSET Names, \A n \in E : lock[n] # None,
           ref' = RefWithout(E), byToken' = TokenWithout(E), gen' = gen,
           lock' \in [Names -> LockRecs \cup {None}],
           \A n \in Names : IF n \in E \/ lock[n] = None THEN lock'[n] = None
                            ELSE lock'[n] # None /\ lock'[n].token = lock[n].token /\ lock'[n].zero = lock[n].zero,
           byExpiry' \in SUBSET Names, Queued(lock', byExpiry')
    PROVE  TableInv'
<1>1. Table(RemR(ref, E), RemL(lock, E), RemT(byToken, E), byExpiry \ E, gen)
    BY TableWithout, Zenon DEF TableInv
<1>2. \A n \in Names : RemL(lock, E)[n] = IF n \in E THEN None ELSE lock[n]
    BY Zenon DEF RemL
<1>3. \A n \in Names : /\ lock'[n] = None <=> RemL(lock, E)[n] = None
                       /\ RemL(lock, E)[n] # None => /\ lock'[n].token = RemL(lock, E)[n].token
                                                     /\ lock'[n].zero = RemL(lock, E)[n].zero
    BY <1>2, Zenon
<1>4. Table(RemR(ref, E), lock', RemT(byToken, E), byExpiry', gen)
    BY <1>1, <1>3, TableChanged, Zenon
<1> QED
    BY <1>4, WithoutIsRem, Zenon DEF TableInv

(* A change that leaves the guarded locks alone keeps the invariant.       *)
LEMMA ChangeInv ==
    ASSUME IInv, NEW r \in Reqs, NEW local, req' = [req EXCEPT ![r] = local],
           UNCHANGED <<gen, clock, given>>, TableInv',
           NEW E \in SUBSET Names, \A n \in E : n \notin Guarded(r),
           \A t \in Tokens : byToken'[t] = IF byToken[t] \in E THEN None ELSE byToken[t],
           \A n \in Names : lock'[n] # None => Inherited(n),
           \A n \in Guarded(r) : lock'[n] = lock[n],
           Temps(req[r]) = {}, Temps(local) = {}, Settled(local)',
           local.pc = "holding" =>
              \A n \in local.holds : lock'[n] # None /\ lock'[n].held /\ n \notin Guarded(r)
    PROVE  IInv'
<1>1. clock' \in 0 .. MaxClock /\ given' \subseteq 1 .. gen'
    BY Zenon DEF IInv, ReqTyped
<1>2. \A t \in 1 .. gen : t \in Tokens
    BY GenFacts, Zenon DEF IInv
<1>3. ASSUME NEW n \in Guarded(r) PROVE lock'[n] = lock[n] /\ byToken'[lock[n].token] = n
    <2>1. byToken[lock[n].token] = n /\ lock[n].token \in 1 .. gen
        BY GuardedFacts, Zenon
    <2> QED
        BY <1>2, <2>1, Zenon
<1> QED
    BY <1>1, <1>3, StepInv, Zenon

(* A step that changes at most the clock.                                  *)
LEMMA SameInv ==
    ASSUME IInv, UNCHANGED <<ref, lock, byToken, byExpiry, gen, req, given>>, clock' \in 0 .. MaxClock
    PROVE  IInv'
<1>1. TableInv'
    BY Zenon DEF IInv, TableInv
<1>2. ReqTyped'
    BY Zenon DEF IInv, ReqTyped
<1>3. HeldStays' /\ NoLeakedLock'
    BY Zenon DEF IInv, HeldStays, NoLeakedLock, Locked, TempTokens
<1>4. Requesting'
    BY ZenonT(60) DEF IInv, Requesting, Locked, TempTokens, Plain, Temporary, Holding, Covers
<1> QED
    BY <1>1, <1>2, <1>3, <1>4, Zenon DEF IInv

(* Tokens that clients were given are tokens.                              *)
LEMMA GivenTokens == IInv => given \subseteq Tokens
<1> SUFFICES ASSUME IInv PROVE given \subseteq Tokens
    BY Zenon
<1>1. given \subseteq 1 .. gen
    BY Zenon DEF IInv, ReqTyped
<1> QED
    BY <1>1, GenFacts, Zenon DEF IInv

(* A lock a client names with its token, once the expired ones are gone,   *)
(* and that is free: nobody else relies on it.                             *)
LEMMA NodeFacts ==
    ASSUME IInv, NEW r \in Reqs, NEW now, NEW t \in given, NEW n, n = NodeOf(now, t), n # None
    PROVE  /\ n \in Names /\ lock[n] # None /\ lock[n] \in LockRecs /\ lock[n].token = t
           /\ n \notin Expired(now)
           /\ ~lock[n].held => n \notin Guarded(r)
<1>1. t \in Tokens
    BY GivenTokens, Zenon
<1>2. n = byToken[t] /\ n \notin Expired(now)
    BY <1>1, Zenon DEF NodeOf, TokenWithout
<1>3. n \in Names /\ lock[n] # None /\ lock[n].token = t /\ lock[n] \in LockRecs
    BY <1>1, <1>2 DEF IInv, TableInv, Table, Typed, TokensMatch
<1> QED
    BY <1>2, <1>3, GuardedFacts, Zenon
-----------------------------------------------------------------------------
(* Time passes.                                                            *)
LEMMA TickInv == IInv /\ Tick => IInv'
<1> SUFFICES ASSUME IInv, Tick PROVE IInv'
    BY Zenon
<1>1. clock' \in 0 .. MaxClock
    BY Constants DEF Tick, IInv, ReqTyped
<1> QED
    BY <1>1, SameInv, Zenon DEF Tick, ls

(* Arrive.                                                                 *)
LEMMA ArriveInv ==
    ASSUME NEW r \in Reqs, IInv, Arrive(r) PROVE IInv'
<1> SUFFICES ASSUME NEW local, local = [pc |-> "arrived", now |-> clock] PROVE IInv'
    BY Zenon
<1>1. ref' = ref /\ lock' = lock /\ byToken' = byToken /\ byExpiry' = byExpiry /\ gen' = gen
      /\ clock' = clock /\ given' = given /\ req' = [req EXCEPT ![r] = local] /\ req[r].pc = "idle"
    BY Zenon DEF Arrive, ls, Goto
<1>2. TableInv'
    BY <1>1, Zenon DEF IInv, TableInv
<1>3. local.pc = "arrived" /\ local.now = clock /\ clock \in Nat
    BY Constants DEF IInv, ReqTyped
<1>4. Settled(local)' /\ Temps(local) = {} /\ Temps(req[r]) = {}
    BY <1>1, <1>3, Zenon DEF Settled, ReqStates, Temps
<1>5. \A n \in Guarded(r) : lock'[n] = lock[n] /\ byToken'[lock[n].token] = n
    BY <1>1, GuardedFacts, Zenon
<1>6. \A n \in Names : lock'[n] # None => Inherited(n)
    BY <1>1, Zenon DEF Inherited
<1>7. clock' \in 0 .. MaxClock /\ given' \subseteq 1 .. gen'
    BY <1>1, Zenon DEF IInv, ReqTyped
<1> QED
    BY <1>1, <1>2, <1>3, <1>4, <1>5, <1>6, <1>7, StepInv, Zenon

(* Names that are joined with the base path are names.                     *)
LEMMA JoinedNames ==
    /\ \A p \in Paths : p \in Names /\ Join(p) \in Names
    /\ \A w \in Writes : w \in Writings /\ (w.src # None \/ w.dst # None)
<1>1. \A p \in Paths : p \in Names /\ Join(p) \in Names
    BY Zenon DEF Paths
<1>2. None \notin Names
    BY Constants, Zenon
<1>3. ASSUME NEW w \in Writes PROVE w \in Writings /\ (w.src # None \/ w.dst # None)
    <2> DEFINE joined == {Join(p) : p \in Paths}
    <2>1. joined \subseteq Names
        BY <1>1, Zenon
    <2>2. \/ \E p \in Paths : w = [src |-> p, dst |-> None, touches |-> {Join(p)}]
          \/ \E q \in joined : w = [src |-> None, dst |-> q, touches |-> {q}]
          \/ \E v \in joined \X joined : w = [src |-> v[1], dst |-> v[2], touches |-> {v[1], v[2]}]
        BY Zenon DEF Writes
    <2> HIDE DEF joined
    <2>3. CASE \E p \in Paths : w = [src |-> p, dst |-> None, touches |-> {Join(p)}]
        BY <1>1, <1>2, <2>3 DEF Writings
    <2>4. CASE \E q \in joined : w = [src |-> None, dst |-> q, touches |-> {q}]
        BY <1>2, <2>1, <2>4 DEF Writings
    <2>5. CASE \E v \in joined \X joined : w = [src |-> v[1], dst |-> v[2], touches |-> {v[1], v[2]}]
        BY <1>2, <2>1, <2>5 DEF Writings
    <2> QED
        BY <2>2, <2>3, <2>4, <2>5, Zenon
<1> QED
    BY <1>1, <1>3, Zenon

(* LOCK.                                                                   *)
LEMMA LockCreateInv ==
    ASSUME NEW r \in Reqs, IInv, LockCreate(r) PROVE IInv'
<1>1. req[r].pc = "arrived" /\ req[r].now \in Nat /\ req' = [req EXCEPT ![r] = Idle] /\ clock' = clock
    BY Zenon DEF LockCreate, Goto, IInv, ReqTyped
<1>2. Temps(req[r]) = {}
    BY <1>1, Zenon DEF Temps
<1>3. PICK p \in Paths, zero \in BOOLEAN, dur \in Durations :
         \/ Create(req[r].now, Join(p), zero, dur) /\ given' = given \cup {gen + 1}
         \/ Refused(req[r].now, Join(p), zero) /\ given' = given
    BY Zenon DEF LockCreate
<1>4. Join(p) \in Names
    BY JoinedNames, Zenon
<1>5. CASE Create(req[r].now, Join(p), zero, dur) /\ given' = given \cup {gen + 1}
    BY <1>1, <1>2, <1>4, <1>5, IdleSettled, CreateInv, Zenon
<1>6. CASE Refused(req[r].now, Join(p), zero) /\ given' = given
    BY <1>1, <1>2, <1>6, IdleSettled, ExpiredUnguarded, RemovalInv, Zenon DEF Refused
<1> QED
    BY <1>3, <1>5, <1>6, Zenon

(* UNLOCK.                                                                 *)
LEMMA UnlockTokenInv ==
    ASSUME NEW r \in Reqs, IInv, UnlockToken(r) PROVE IInv'
<1>1. req[r].pc = "arrived" /\ req' = [req EXCEPT ![r] = Idle] /\ UNCHANGED <<clock, given>>
    BY Zenon DEF UnlockToken, Goto
<1>2. Temps(req[r]) = {}
    BY <1>1, Zenon DEF Temps
<1>3. PICK t \in given : Unlock(req[r].now, t)
    BY Zenon DEF UnlockToken
<1>4. t \in Tokens
    BY GivenTokens, Zenon
<1> QED
    BY <1>1, <1>2, <1>3, <1>4, IdleSettled, UnlockInv, Zenon

(* The first temporary lock of confirmLocks.                               *)
LEMMA ClaimFirstInv ==
    ASSUME NEW r \in Reqs, IInv, ClaimFirst(r) PROVE IInv'
<1>1. req[r].pc = "arrived" /\ req[r].now \in Nat /\ clock' = clock /\ given' = given
    BY Zenon DEF ClaimFirst, IInv, ReqTyped
<1>2. Temps(req[r]) = {}
    BY <1>1, Zenon DEF Temps
<1>3. PICK w \in Writes :
         LET name == IF w.src # None THEN w.src ELSE w.dst
             q    == [pc |-> IF w.src # None /\ w.dst # None THEN "claim" ELSE "active",
                      now |-> req[r].now, write |-> w,
                      st |-> IF w.src # None THEN gen + 1 ELSE None,
                      dt |-> IF w.src # None THEN None ELSE gen + 1]
         IN  \/ Create(req[r].now, name, TRUE, infiniteTimeout) /\ req' = [req EXCEPT ![r] = q]
             \/ Refused(req[r].now, name, TRUE) /\ req' = [req EXCEPT ![r] = Idle]
    BY Zenon DEF ClaimFirst, Goto
<1>4. w \in Writings /\ (w.src # None \/ w.dst # None)
    BY JoinedNames, Zenon
<1>5. PICK name \in Names : name = IF w.src # None THEN w.src ELSE w.dst
    BY <1>4, Zenon DEF Writings
<1>6. PICK q : q = [pc |-> IF w.src # None /\ w.dst # None THEN "claim" ELSE "active",
                    now |-> req[r].now, write |-> w,
                    st |-> IF w.src # None THEN gen + 1 ELSE None,
                    dt |-> IF w.src # None THEN None ELSE gen + 1]
    BY Zenon
<1>7. CASE Create(req[r].now, name, TRUE, infiniteTimeout) /\ req' = [req EXCEPT ![r] = q]
    <2>1. gen \in Nat /\ gen + 1 \in Tokens /\ gen + 1 # None /\ gen + 1 \notin given'
        <3>1. gen \in Nat /\ gen + 1 \in Tokens /\ gen + 1 # None
            BY <1>7, GenFacts, Zenon DEF Create, IInv
        <3> QED
            BY <1>1, <3>1 DEF IInv, ReqTyped
    <2>2. lock'[name].zero = TRUE /\ lock'[name].dur = infiniteTimeout /\ ~lock'[name].held /\ byToken'[gen + 1] = name
        BY <1>1, <1>7, CreateStep, Zenon DEF IInv
    <2>3. PICK new : new = gen + 1
        BY Zenon
    <2>4. Temporary(new, name)'
        BY <2>1, <2>2, <2>3, Zenon DEF Temporary
    <2>5. q \in Plains /\ q.pc \in {"claim", "active"} /\ q.write = w
        BY <1>1, <1>4, <1>6, <2>1, Zenon DEF Plains
    <2>6. Plain(q)'
        <3>1. q.st # None => q.st = new /\ q.write.src = name
            BY <1>5, <1>6, <2>3, Zenon
        <3>2. q.dt # None => q.dt = new /\ q.write.dst = name
            BY <1>5, <1>6, <2>3, Zenon
        <3>3. q.pc = "claim" => q.st # None /\ q.dt = None /\ q.write.dst # None
            BY <1>6, <2>1, Zenon
        <3>4. q.pc = "active" => (q.write.src = None <=> q.st = None) /\ (q.write.dst = None <=> q.dt = None)
            BY <1>4, <1>6, <2>1, Zenon
        <3>5. q.st # None \/ q.dt # None
            BY <1>6, <2>1, Zenon
        <3>6. q.st = q.dt => q.st = None
            BY <1>6, Zenon
        <3> QED
            BY <2>4, <2>5, <3>1, <3>2, <3>3, <3>4, <3>5, <3>6 DEF Plain
    <2>7. Settled(q)'
        BY <2>5, <2>6, Zenon DEF Settled, ReqStates
    <2>8. Temps(q) = {gen + 1}
        BY <1>6, <2>1, <2>5, Zenon DEF Temps
    <2> QED
        BY <1>1, <1>2, <1>7, <2>5, <2>7, <2>8, CreateInv, Zenon
<1>8. CASE Refused(req[r].now, name, TRUE) /\ req' = [req EXCEPT ![r] = Idle]
    BY <1>1, <1>2, <1>8, IdleSettled, ExpiredUnguarded, RemovalInv, Zenon DEF Refused
<1> QED
    BY <1>3, <1>5, <1>6, <1>7, <1>8, Zenon

(* The temporary lock of a claim outlives what the request does next.      *)
LEMMA OwnTempKept ==
    ASSUME IInv, NEW r \in Reqs, NEW t \in TempTokens(r), NEW n, Temporary(t, n), given' = given,
           lock'[n] = lock[n], byToken'[t] = n
    PROVE  Temporary(t, n)'
BY Zenon DEF Temporary

(* The second one; when it cannot be had the first is to be released.      *)
LEMMA ClaimDstInv ==
    ASSUME NEW r \in Reqs, IInv, ClaimDst(r) PROVE IInv'
<1>1. PICK q : q = req[r]
    BY Zenon
<1>2. q.pc = "claim" /\ q \in Plains /\ Plain(q) /\ clock' = clock /\ given' = given
    BY <1>1, Zenon DEF ClaimDst, IInv, ReqTyped, Requesting
<1>3. q.st # None /\ q.dt = None /\ q.write.dst # None /\ q.write.dst \in Names /\ q.now \in Nat /\ q.st \in Tokens
    BY <1>2, Zenon DEF Plain, Plains, Writings
<1>4. PICK src : src = q.write.src
    BY Zenon
<1>5. Temporary(q.st, src) /\ src \in Names /\ src # None /\ byToken[q.st] = src
    BY <1>2, <1>3, <1>4, Constants, Zenon DEF Plain, Temporary
<1>6. q.st \in TempTokens(r) /\ Temps(req[r]) = {q.st}
    BY <1>1, <1>2, <1>3, Zenon DEF TempTokens, Temps
<1>7. q.st \in 1 .. gen /\ lock[src] # None /\ src \notin byExpiry
    BY <1>5, <1>6, TempFacts, Zenon
<1>8. src \notin Expired(q.now)
    BY <1>7, Zenon DEF Expired
<1>9. \/ Create(q.now, q.write.dst, TRUE, infiniteTimeout) /\ req' = [req EXCEPT ![r] = [q EXCEPT !.dt = gen + 1, !.pc = "active"]]
      \/ Refused(q.now, q.write.dst, TRUE) /\ req' = [req EXCEPT ![r] = [q EXCEPT !.pc = "release"]]
    BY <1>1, Zenon DEF ClaimDst, Goto
<1>10. CASE Create(q.now, q.write.dst, TRUE, infiniteTimeout) /\ req' = [req EXCEPT ![r] = [q EXCEPT !.dt = gen + 1, !.pc = "active"]]
    <2>1. PICK p : p = [q EXCEPT !.dt = gen + 1, !.pc = "active"]
        BY Zenon
    <2>2. gen \in Nat /\ gen + 1 \in Tokens /\ gen + 1 # None /\ gen + 1 \notin given'
        <3>1. gen \in Nat /\ gen + 1 \in Tokens /\ gen + 1 # None
            BY <1>10, GenFacts, Zenon DEF Create, IInv
        <3> QED
            BY <1>2, <3>1 DEF IInv, ReqTyped
    <2>3. PICK dst \in Names : dst = q.write.dst
        BY <1>3, Zenon
    <2>4. /\ lock'[dst].zero = TRUE /\ lock'[dst].dur = infiniteTimeout /\ ~lock'[dst].held /\ byToken'[gen + 1] = dst
          /\ dst \notin Expired(q.now) => lock[dst] = None
          /\ \A n \in Names \ {dst} : lock'[n] = IF n \in Expired(q.now) THEN None ELSE lock[n]
          /\ \A t \in 1 .. gen : byToken'[t] = IF byToken[t] \in Expired(q.now) THEN None ELSE byToken[t]
        <3>1. Create(q.now, dst, TRUE, infiniteTimeout) /\ TableInv
            BY <1>10, <2>3, Zenon DEF IInv
        <3>2. infiniteTimeout \in Durations \cup {infiniteTimeout} /\ TRUE \in BOOLEAN
            BY Zenon
        <3>3. PICK now \in Nat : now = q.now
            BY <1>3, Zenon
        <3>4. Create(now, dst, TRUE, infiniteTimeout)
            BY <3>1, <3>3, Zenon
        <3>5. /\ lock'[dst].zero = TRUE /\ lock'[dst].dur = infiniteTimeout /\ ~lock'[dst].held /\ byToken'[gen + 1] = dst
              /\ dst \notin Expired(now) => lock[dst] = None
              /\ \A n \in Names \ {dst} : lock'[n] = IF n \in Expired(now) THEN None ELSE lock[n]
              /\ \A t \in 1 .. gen : byToken'[t] = IF byToken[t] \in Expired(now) THEN None ELSE byToken[t]
            BY <3>1, <3>2, <3>4, CreateStep, Zenon
        <3> QED
            BY <3>3, <3>5, Zenon
    <2>5. lock'[src] = lock[src] /\ byToken'[q.st] = src
        BY <1>5, <1>7, <1>8, <2>4, Zenon
    <2>6. Temporary(q.st, src)'
        BY <1>2, <1>5, <1>6, <2>5, OwnTempKept, Zenon
    <2>7. PICK new : new = gen + 1
        BY Zenon
    <2>8. Temporary(new, dst)'
        BY <2>2, <2>4, <2>7, Zenon DEF Temporary
    <2>9. p \in Plains /\ p.pc = "active" /\ p.st = q.st /\ p.dt = gen + 1 /\ p.write = q.write
        BY <1>2, <2>1, <2>2, Zenon DEF Plains
    <2>10. Plain(p)'
        BY <1>3, <1>4, <1>5, <1>7, <2>2, <2>3, <2>6, <2>7, <2>8, <2>9 DEF Plain
    <2>11. Settled(p)'
        BY <2>9, <2>10, Zenon DEF Settled, ReqStates
    <2>12. Temps(p) = {q.st, gen + 1}
        BY <1>3, <2>2, <2>9, Zenon DEF Temps
    <2> QED
        BY <1>2, <1>3, <1>6, <1>10, <2>1, <2>3, <2>9, <2>11, <2>12, CreateInv, Zenon
<1>11. CASE Refused(q.now, q.write.dst, TRUE) /\ req' = [req EXCEPT ![r] = [q EXCEPT !.pc = "release"]]
    <2>1. PICK p : p = [q EXCEPT !.pc = "release"]
        BY Zenon
    <2>2. p \in Plains /\ p.pc = "release" /\ p.st = q.st /\ p.dt = None /\ p.write = q.write
        BY <1>2, <1>3, <2>1, Zenon DEF Plains
    <2>3. lock'[src] = lock[src] /\ byToken'[q.st] = src
        BY <1>3, <1>5, <1>8, <1>11, Zenon DEF Refused, remove, LockWithout, TokenWithout
    <2>4. Temporary(q.st, src)'
        BY <1>2, <1>5, <1>6, <2>3, OwnTempKept, Zenon
    <2>5. Plain(p)'
        BY <1>3, <1>4, <2>2, <2>4, Zenon DEF Plain
    <2>6. Settled(p)'
        BY <2>2, <2>5, Zenon DEF Settled, ReqStates
    <2>7. Temps(p) = {q.st}
        BY <1>3, <2>2, Zenon DEF Temps
    <2> QED
        BY <1>2, <1>6, <1>11, <2>1, <2>2, <2>6, <2>7, ExpiredUnguarded, RemovalInv, Zenon DEF Refused
<1> QED
    BY <1>9, <1>10, <1>11, Zenon

(* The release function of the temporary locks.                            *)
LEMMA ReleasePlainInv ==
    ASSUME NEW r \in Reqs, IInv, ReleasePlain(r) PROVE IInv'
<1>1. PICK q : q = req[r]
    BY Zenon
<1>2. q.pc \in {"active", "release"} /\ q \in Plains /\ Plain(q) /\ UNCHANGED <<clock, given>>
    BY <1>1, Zenon DEF ReleasePlain, IInv, ReqTyped, Requesting
<1>3. TempTokens(r) = {q.st, q.dt} \ {None} /\ Temps(req[r]) = TempTokens(r)
    BY <1>1, <1>2, Zenon DEF TempTokens, Temps
<1>4. q.st \in Tokens \cup {None} /\ q.dt \in Tokens \cup {None}
    BY <1>2, Zenon DEF Plains
<1>5. CASE q.dt # None /\ q.st # None
    <2>1. PICK p : p = [q EXCEPT !.pc = "release", !.dt = None]
        BY Zenon
    <2>2. Unlock(q.now, q.dt) /\ req' = [req EXCEPT ![r] = p]
        BY <1>1, <1>5, <2>1, Zenon DEF ReleasePlain, Goto
    <2>3. p \in Plains /\ p.pc = "release" /\ p.st = q.st /\ p.dt = None /\ p.write = q.write
        BY <1>2, <2>1, Zenon DEF Plains
    <2>4. PICK src : src = q.write.src
        BY Zenon
    <2>5. Temporary(q.st, src) /\ byToken[q.st] = src /\ src \in Names /\ q.st # q.dt
        BY <1>2, <1>5, <2>4, Zenon DEF Plain, Temporary
    <2>6. lock[src] # None /\ lock[src].token = q.st /\ src \notin byExpiry
        BY <1>3, <1>5, <2>5, TempFacts, Zenon
    <2>7. byToken[q.dt] # src
        BY <1>3, <1>5, <2>5, <2>6, TempFacts
    <2>8. NodeOf(q.now, q.dt) # src /\ src \notin Expired(q.now)
        BY <1>4, <1>5, <2>5, <2>6, <2>7, Constants, Zenon DEF NodeOf, TokenWithout, Expired
    <2>9. lock'[src] = lock[src] /\ byToken'[q.st] = src
        BY <1>4, <1>5, <2>2, <2>5, <2>8, Zenon DEF Unlock, remove, LockWithout, TokenWithout
    <2>10. Temporary(q.st, src)'
        BY <1>2, <1>3, <1>5, <2>5, <2>9, OwnTempKept, Zenon
    <2>11. Plain(p)'
        BY <1>5, <2>3, <2>4, <2>10, Zenon DEF Plain
    <2>12. Settled(p)'
        BY <2>3, <2>11, Zenon DEF Settled, ReqStates
    <2>13. Temps(p) = {q.st}
        BY <1>5, <2>3, Zenon DEF Temps
    <2>14. PICK t \in Tokens : t = q.dt
        BY <1>4, <1>5, Zenon
    <2>15. t \in Temps(req[r]) /\ Temps(p) \subseteq Temps(req[r]) /\ Temps(req[r]) \ Temps(p) \subseteq {t}
        BY <1>3, <1>5, <2>13, <2>14, Zenon
    <2>16. Unlock(q.now, t) /\ p.pc # "holding"
        BY <2>2, <2>3, <2>14, Zenon
    <2> QED
        BY <1>2, <2>2, <2>12, <2>15, <2>16, UnlockInv, Zenon
<1>6. CASE q.dt # None /\ q.st = None
    <2>1. Unlock(q.now, q.dt) /\ req' = [req EXCEPT ![r] = Idle]
        BY <1>1, <1>6, Zenon DEF ReleasePlain, Goto
    <2>2. PICK t \in Tokens : t = q.dt
        BY <1>4, <1>6, Zenon
    <2>3. t \in Temps(req[r]) /\ Temps(Idle) \subseteq Temps(req[r]) /\ Temps(req[r]) \ Temps(Idle) \subseteq {t}
        BY <1>3, <1>6, <2>2, IdleSettled, Zenon
    <2>4. Unlock(q.now, t)
        BY <2>1, <2>2, Zenon
    <2> QED
        BY <1>2, <2>1, <2>3, <2>4, IdleSettled, UnlockInv, Zenon
<1>7. CASE q.dt = None
    <2>1. Unlock(q.now, q.st) /\ req' = [req EXCEPT ![r] = Idle] /\ q.st # None
        BY <1>1, <1>2, <1>7, Zenon DEF ReleasePlain, Goto, Plain
    <2>2. PICK t \in Tokens : t = q.st
        BY <1>4, <2>1, Zenon
    <2>3. t \in Temps(req[r]) /\ Temps(Idle) \subseteq Temps(req[r]) /\ Temps(req[r]) \ Temps(Idle) \subseteq {t}
        BY <1>3, <1>7, <2>1, <2>2, IdleSettled, Zenon
    <2>4. Unlock(q.now, t)
        BY <2>1, <2>2, Zenon
    <2> QED
        BY <1>2, <2>1, <2>3, <2>4, IdleSettled, UnlockInv, Zenon
<1> QED
    BY <1>5, <1>6, <1>7, Zenon

(* LOCK without a body.                                                    *)
LEMMA RefreshInv ==
    ASSUME NEW r \in Reqs, IInv, Refresh(r) PROVE IInv'
<1>1. PICK now \in Nat : now = req[r].now
    BY Zenon DEF Refresh, IInv, ReqTyped
<1>2. PICK E : E = Expired(now)
    BY Zenon
<1>3. req[r].pc = "arrived" /\ req' = [req EXCEPT ![r] = Idle] /\ UNCHANGED <<clock, given>>
    BY Zenon DEF Refresh, Goto
<1>4. Temps(req[r]) = {}
    BY <1>3, Zenon DEF Temps
<1>5. E \in SUBSET Names /\ \A m \in E : lock[m] # None /\ m \notin Guarded(r)
    BY <1>2, ExpiredUnguarded, Zenon
<1>6. PICK t \in given, dur \in Durations :
         IF NodeOf(now, t) = None \/ lock[NodeOf(now, t)].held THEN remove(E)
         ELSE /\ ref' = RefWithout(E)
              /\ byToken' = TokenWithout(E)
              /\ lock' = [LockWithout(E) EXCEPT
                   ![NodeOf(now, t)] = [lock[NodeOf(now, t)] EXCEPT !.dur = dur,
                                          !.expiry = IF dur >= 0 THEN now + dur ELSE @]]
              /\ byExpiry' = (byExpiry \ (E \cup {NodeOf(now, t)})) \cup (IF dur >= 0 THEN {NodeOf(now, t)} ELSE {})
              /\ gen' = gen
    BY <1>1, <1>2, Zenon DEF Refresh
<1>7. PICK n : n = NodeOf(now, t)
    BY Zenon
<1>8. CASE n = None \/ lock[n].held
    BY <1>3, <1>4, <1>5, <1>6, <1>7, <1>8, IdleSettled, RemovalInv, Zenon
<1>9. CASE ~(n = None \/ lock[n].held)
    <2>1. /\ n \in Names /\ lock[n] # None /\ lock[n] \in LockRecs /\ lock[n].token = t
          /\ n \notin E /\ n \notin Guarded(r) /\ ~lock[n].held
        BY <1>2, <1>7, <1>9, NodeFacts
    <2>2. PICK new : new = [lock[n] EXCEPT !.dur = dur, !.expiry = IF dur >= 0 THEN now + dur ELSE @]
        BY Zenon
    <2>3. dur \in Int /\ now + dur \in Int
        BY Constants
    <2>4. new \in LockRecs /\ new.token = t /\ new.zero = lock[n].zero /\ new.dur = dur /\ ~new.held
        BY <2>1, <2>2, <2>3, Zenon DEF LockRecs
    <2>5. new # None
        BY <2>4, Constants, Zenon
    <2>6. /\ ref' = RefWithout(E) /\ byToken' = TokenWithout(E) /\ gen' = gen
          /\ lock' = [LockWithout(E) EXCEPT ![n] = new]
          /\ byExpiry' = (byExpiry \ (E \cup {n})) \cup (IF dur >= 0 THEN {n} ELSE {})
        BY <1>6, <1>7, <1>9, <2>2, Zenon
    <2>7. lock \in [Names -> LockRecs \cup {None}] /\ byExpiry \subseteq Names /\ Queued(lock, byExpiry) /\ TableInv
        BY Zenon DEF IInv, TableInv, Table, Typed
    <2>8. /\ lock' \in [Names -> LockRecs \cup {None}]
          /\ \A m \in Names : lock'[m] = IF m = n THEN new ELSE IF m \in E THEN None ELSE lock[m]
        BY <2>4, <2>6, <2>7, Zenon DEF LockWithout
    <2>9. byExpiry' \in SUBSET Names /\ Queued(lock', byExpiry')
        BY <2>1, <2>4, <2>5, <2>6, <2>7, <2>8 DEF Queued
    <2>10. \A m \in Names : IF m \in E \/ lock[m] = None THEN lock'[m] = None
                            ELSE lock'[m] # None /\ lock'[m].token = lock[m].token /\ lock'[m].zero = lock[m].zero
        BY <2>1, <2>4, <2>5, <2>8, Zenon
    <2>11. TableInv'
        BY <1>5, <2>6, <2>7, <2>8, <2>9, <2>10, ChangeStep, Zenon
    <2>12. \A m \in Names : lock'[m] # None => Inherited(m)
        BY <2>1, <2>4, <2>8, Zenon DEF Inherited
    <2>13. \A m \in Guarded(r) : lock'[m] = lock[m]
        BY <1>5, <2>1, <2>8, GuardedFacts, Zenon
    <2>14. \A u \in Tokens : byToken'[u] = IF byToken[u] \in E THEN None ELSE byToken[u]
        BY <2>6, Zenon DEF TokenWithout
    <2> QED
        BY <1>3, <1>4, <1>5, <2>6, <2>11, <2>12, <2>13, <2>14, IdleSettled, ChangeInv, Zenon
<1> QED
    BY <1>8, <1>9, Zenon

(* What Confirm does when it finds the nodes f for the names C.            *)
Confirmed(r, E, now, C, f) ==
    LET H == {f[c] : c \in C} IN
    /\ \A c \in C : f[c] \in lookup(now, c)
    /\ lock' = [n \in Names |-> IF n \in H THEN [lock[n] EXCEPT !.held = TRUE] ELSE LockWithout(E)[n]]
    /\ byExpiry' = byExpiry \ (E \cup H)
    /\ req' = [req EXCEPT ![r] = [pc |-> "holding", claims |-> C, holds |-> H]]
    /\ ref' = RefWithout(E)
    /\ byToken' = TokenWithout(E)
    /\ gen' = gen

(* Confirm.                                                                *)
LEMMA ConfirmInv ==
    ASSUME NEW r \in Reqs, IInv, Confirm(r) PROVE IInv'
<1>1. PICK now \in Nat : now = req[r].now
    BY Zenon DEF Confirm, IInv, ReqTyped
<1>2. PICK E : E = Expired(now)
    BY Zenon
<1>3. req[r].pc = "arrived" /\ UNCHANGED <<clock, given>>
    BY Zenon DEF Confirm
<1>4. Temps(req[r]) = {}
    BY <1>3, Zenon DEF Temps
<1>5. E \in SUBSET Names /\ \A m \in E : lock[m] # None /\ m \notin Guarded(r)
    BY <1>2, ExpiredUnguarded, Zenon
<1>6. CASE remove(E) /\ req' = [req EXCEPT ![r] = Idle]
    BY <1>3, <1>4, <1>5, <1>6, IdleSettled, RemovalInv, Zenon
<1>7. CASE \E C \in Listed : \E f \in [C -> Names] : Confirmed(r, E, now, C, f)
    <2>0. PICK C \in Listed : \E f \in [C -> Names] : Confirmed(r, E, now, C, f)
        BY <1>7, Zenon
    <2>1. PICK f \in [C -> Names] : Confirmed(r, E, now, C, f)
        BY <2>0, Zenon
    <2>2. PICK H : H = {f[c] : c \in C}
        BY Zenon
    <2>3. PICK local : local = [pc |-> "holding", claims |-> C, holds |-> H]
        BY Zenon
    <2>4. ASSUME NEW n \in H
          PROVE  /\ n \in Names /\ lock[n] # None /\ lock[n] \in LockRecs /\ lock[n].token \in given
                 /\ n \notin E /\ n \notin Guarded(r) /\ ~lock[n].held
        <3>1. PICK c \in C : n = f[c]
            BY <2>2, Zenon
        <3>2. n \in lookup(now, c)
            BY <2>1, <3>1, Zenon DEF Confirmed
        <3>3. PICK t \in given : n = NodeOf(now, t) /\ n # None
            BY <3>2, Zenon DEF lookup
        <3>4. ~lock[n].held
            BY <3>2, Zenon DEF lookup
        <3> QED
            BY <1>2, <3>3, <3>4, NodeFacts
    <2>5. \A c \in C : f[c] \in H /\ Covers(f[c], c)
        BY <2>1, <2>2, Zenon DEF lookup, Confirmed
    <2>6. lock \in [Names -> LockRecs \cup {None}] /\ byExpiry \subseteq Names /\ Queued(lock, byExpiry) /\ TableInv
        BY Zenon DEF IInv, TableInv, Table, Typed
    <2>7. \A m \in Names : lock'[m] = IF m \in H THEN [lock[m] EXCEPT !.held = TRUE]
                                      ELSE IF m \in E THEN None ELSE lock[m]
        BY <2>1, <2>2, Zenon DEF LockWithout, Confirmed
    <2>8. ASSUME NEW m \in H
          PROVE  /\ lock'[m] \in LockRecs /\ lock'[m] # None /\ lock'[m].token = lock[m].token
                 /\ lock'[m].zero = lock[m].zero /\ lock'[m].held
        <3>1. lock'[m] = [lock[m] EXCEPT !.held = TRUE] /\ lock[m] \in LockRecs
            BY <2>4, <2>7, Zenon
        <3>2. lock'[m] \in LockRecs /\ lock'[m].token = lock[m].token /\ lock'[m].zero = lock[m].zero /\ lock'[m].held
            BY <3>1, Zenon DEF LockRecs
        <3> QED
            BY <3>2, Constants, Zenon
    <2>9. \A m \in Names \ H : lock'[m] = IF m \in E THEN None ELSE lock[m]
        BY <2>7, Zenon
    <2>10. lock' \in [Names -> LockRecs \cup {None}]
        <3>1. DOMAIN lock' = Names /\ lock' = [m \in Names |-> lock'[m]]
            BY <2>1, Zenon DEF Confirmed
        <3>2. \A m \in Names : lock'[m] \in LockRecs \cup {None}
            BY <2>6, <2>8, <2>9, Zenon
        <3> QED
            BY <3>1, <3>2, Zenon
    <2>11. byExpiry' \in SUBSET Names /\ Queued(lock', byExpiry')
        BY <2>1, <2>2, <2>4, <2>6, <2>8, <2>9 DEF Queued, Confirmed
    <2>12. \A m \in Names : IF m \in E \/ lock[m] = None THEN lock'[m] = None
                            ELSE lock'[m] # None /\ lock'[m].token = lock[m].token /\ lock'[m].zero = lock[m].zero
        BY <2>4, <2>8, <2>9, Zenon
    <2>13. TableInv'
        BY <1>5, <2>1, <2>6, <2>10, <2>11, <2>12, ChangeStep, Zenon DEF Confirmed
    <2>14. \A m \in Names : lock'[m] # None => Inherited(m)
        BY <2>4, <2>8, <2>9, Zenon DEF Inherited
    <2>15. \A m \in Guarded(r) : lock'[m] = lock[m]
        BY <1>5, <2>4, <2>9, GuardedFacts, Zenon
    <2>16. \A u \in Tokens : byToken'[u] = IF byToken[u] \in E THEN None ELSE byToken[u]
        BY <2>1, Zenon DEF TokenWithout, Confirmed
    <2>17. C \subseteq Names /\ H \subseteq Names
        <3>1. \A p \in Paths : Join(p) \in Names
            BY JoinedNames, Zenon
        <3>2. PICK m \in Names, d \in {Join(p) : p \in Paths} \cup {None} : C = {m, d} \ {None}
            BY DEF Listed
        <3> QED
            BY <2>4, <3>1, <3>2, Zenon
    <2>18. ASSUME NEW c \in C PROVE \E h \in H : Covers(h, c)'
        <3>1. Covers(f[c], c) /\ f[c] \in H
            BY <2>5, Zenon
        <3>2. PICK h \in H : h = f[c]
            BY <3>1, Zenon
        <3>3. Covers(h, c)'
            BY <2>8, <3>1, <3>2, Zenon DEF Covers, Locked
        <3> QED
            BY <3>3, Zenon
    <2>19. local.pc = "holding" /\ local.claims = C /\ local.holds = H
        BY <2>3, Zenon
    <2>20. Settled(local)' /\ Temps(local) = {}
        BY <2>17, <2>18, <2>19, Zenon DEF Settled, ReqStates, Holding, Temps
    <2>21. req' = [req EXCEPT ![r] = local] /\ gen' = gen
        BY <2>1, <2>2, <2>3, Zenon DEF Confirmed
    <2>22. \A n \in local.holds : lock'[n] # None /\ lock'[n].held /\ n \notin Guarded(r)
        BY <2>4, <2>8, <2>19, Zenon
    <2> QED
        BY <1>3, <1>4, <1>5, <2>13, <2>14, <2>15, <2>16, <2>20, <2>21, <2>22, ChangeInv, Zenon
<1> QED
    BY <1>1, <1>2, <1>6, <1>7 DEF Confirm, Confirmed, Goto

(* unhold.                                                                 *)
LEMMA ReleaseHeldInv ==
    ASSUME NEW r \in Reqs, IInv, ReleaseHeld(r) PROVE IInv'
<1>1. PICK H : H = req[r].holds
    BY Zenon
<1>2. /\ req[r].pc = "holding" /\ req' = [req EXCEPT ![r] = Idle]
      /\ ref' = ref /\ byToken' = byToken /\ gen' = gen /\ clock' = clock /\ given' = given
      /\ lock' = [n \in Names |-> IF n \in H THEN [lock[n] EXCEPT !.held = FALSE] ELSE lock[n]]
      /\ byExpiry' = byExpiry \cup {n \in H : lock[n].dur >= 0}
    BY <1>1, Zenon DEF ReleaseHeld, Goto
<1>3. Temps(req[r]) = {}
    BY <1>2, Zenon DEF Temps
<1>4. lock \in [Names -> LockRecs \cup {None}] /\ byExpiry \subseteq Names /\ Queued(lock, byExpiry) /\ TableInv
    BY Zenon DEF IInv, TableInv, Table, Typed
<1>5. \A n \in H : n \in Names /\ lock[n] # None /\ lock[n].held /\ lock[n] \in LockRecs /\ n \notin Guarded(r)
    BY <1>1, <1>2, <1>4, GuardedFacts, Zenon DEF IInv, ReqTyped, HeldStays, Locked
<1>6. ASSUME NEW m \in H
      PROVE  /\ lock'[m] \in LockRecs /\ lock'[m] # None /\ lock'[m].token = lock[m].token
             /\ lock'[m].zero = lock[m].zero /\ lock'[m].dur = lock[m].dur /\ ~lock'[m].held
    <2>1. lock'[m] = [lock[m] EXCEPT !.held = FALSE] /\ lock[m] \in LockRecs
        BY <1>2, <1>5, Zenon
    <2>2. /\ lock'[m] \in LockRecs /\ lock'[m].token = lock[m].token /\ lock'[m].zero = lock[m].zero
          /\ lock'[m].dur = lock[m].dur /\ ~lock'[m].held
        BY <2>1, Zenon DEF LockRecs
    <2> QED
        BY <2>2, Constants, Zenon
<1>7. \A m \in Names \ H : lock'[m] = lock[m]
    BY <1>2, Zenon
<1>8. lock' \in [Names -> LockRecs \cup {None}]
    <2>1. DOMAIN lock' = Names /\ lock' = [m \in Names |-> lock'[m]]
        BY <1>2, Zenon
    <2>2. \A m \in Names : lock'[m] \in LockRecs \cup {None}
        BY <1>4, <1>6, <1>7, Zenon
    <2> QED
        BY <2>1, <2>2, Zenon
<1>9. byExpiry' \in SUBSET Names /\ Queued(lock', byExpiry')
    BY <1>2, <1>4, <1>5, <1>6, <1>7, Zenon DEF Queued
<1>10. \A n \in Names : /\ lock'[n] = None <=> lock[n] = None
                        /\ lock[n] # None => lock'[n].token = lock[n].token /\ lock'[n].zero = lock[n].zero
    BY <1>5, <1>6, <1>7, Zenon
<1>11. Table(ref, lock', byToken, byExpiry', gen)
    BY <1>4, <1>8, <1>9, <1>10, TableChanged, Zenon DEF TableInv
<1>12. TableInv'
    BY <1>2, <1>11, Zenon DEF TableInv
<1>13. \A m \in Names : lock'[m] # None => Inherited(m)
    BY <1>5, <1>6, <1>7, Zenon DEF Inherited
<1>14. \A m \in Guarded(r) : lock'[m] = lock[m]
    BY <1>5, <1>7, GuardedFacts, Zenon
<1>15. \A u \in Tokens : byToken'[u] = IF byToken[u] \in {} THEN None ELSE byToken[u]
    BY <1>2, Zenon
<1>16. {} \in SUBSET Names /\ \A n \in {} : n \notin Guarded(r)
    BY Zenon
<1> QED
    BY <1>2, <1>3, <1>12, <1>13, <1>14, <1>15, <1>16, IdleSettled, ChangeInv, Zenon
-----------------------------------------------------------------------------
(* The invariant holds at first.                                           *)
LEMMA InitInv == Init => IInv
<1> SUFFICES ASSUME Init PROVE IInv
    BY Zenon
<1>1. Typed(ref, lock, byToken, byExpiry, gen)
    BY Constants DEF Init, Typed
<1>2. \A n \in Names : lock[n] = None /\ ref[n] = 0
    BY Zenon DEF Init
<1>3. TokensMatch(lock, byToken, gen)
    BY <1>2, Zenon DEF Init, TokensMatch
<1>4. Apart(lock) /\ Queued(lock, byExpiry)
    BY <1>2, Zenon DEF Init, Apart, Queued
<1>5. Counted(ref, lock)
    <2>1. \A m : Below(lock, m) = {}
        BY <1>2, Zenon DEF Below
    <2> QED
        BY <1>2, <2>1, FS_EmptySet, Zenon DEF Counted
<1>6. TableInv
    BY <1>1, <1>3, <1>4, <1>5, Zenon DEF TableInv, Table
<1>7. \A r \in Reqs : req[r] = Idle /\ req[r].pc = "idle" /\ TempTokens(r) = {}
    BY Zenon DEF Init, Idle, TempTokens
<1>8. ReqTyped
    BY <1>7, Constants DEF Init, ReqTyped, ReqStates
<1> QED
    BY <1>2, <1>6, <1>7, <1>8, Zenon DEF IInv, HeldStays, Requesting, NoLeakedLock, Locked

(* Every step keeps it.                                                    *)
LEMMA NextInv == IInv /\ [Next]_vars => IInv'
<1> SUFFICES ASSUME IInv, [Next]_vars PROVE IInv'
    BY Zenon
<1>1. CASE UNCHANGED vars
    <2>1. clock' \in 0 .. MaxClock
        BY <1>1, Zenon DEF vars, IInv, ReqTyped
    <2> QED
        BY <1>1, <2>1, SameInv, Zenon DEF vars, ls
<1>2. CASE Tick
    BY <1>2, TickInv, Zenon
<1>3. ASSUME NEW r \in Reqs, Step(r) PROVE IInv'
    BY <1>3, ArriveInv, LockCreateInv, RefreshInv, UnlockTokenInv, ClaimFirstInv, ClaimDstInv,
       ReleasePlainInv, ConfirmInv, ReleaseHeldInv, Zenon DEF Step
<1> QED
    BY <1>1, <1>2, <1>3, Zenon DEF Next

(* The inductive invariant holds in every reachable state.                 *)
THEOREM Invariance == Spec => []IInv
BY InitInv, NextInv, PTL DEF Spec

(* Every variable keeps its type.                                          *)
THEOREM TypeCorrect == Spec => []TypeOK
<1>1. IInv => TypeOK
    <2> SUFFICES ASSUME IInv PROVE TypeOK
        BY Zenon
    <2>1. Typed(ref, lock, byToken, byExpiry, gen) /\ Counted(ref, lock)
        BY Zenon DEF IInv, TableInv, Table
    <2>2. ref \in [Names -> Nat]
        BY <2>1, BelowFinite DEF Typed, Counted
    <2> QED
        BY <2>1, <2>2, Zenon DEF IInv, ReqTyped, Typed, TypeOK
<1> QED
    BY <1>1, Invariance, PTL

(* The lock table is consistent: no two locks conflict, refCount counts    *)
(* the locks at a node and below it, and the heap holds exactly the free   *)
(* locks with a timeout (canCreate, remove, Create, Refresh, hold,         *)
(* unhold).                                                                *)
THEOREM TableConsistent == Spec => [](NoConflict /\ RefCounts /\ ExpiryComplete)
<1>1. IInv => NoConflict /\ ExpiryComplete
    BY Zenon DEF IInv, TableInv, Table, Apart, Queued, NoConflict, ExpiryComplete, Locked
<1>2. IInv => RefCounts
    BY Zenon DEF IInv, TableInv, Table, Counted, Below, RefCounts, Locked
<1> QED
    BY <1>1, <1>2, Invariance, PTL

(* The locks a request holds stay its own until it releases them, whatever *)
(* expires or is unlocked meanwhile (hold, unhold).                        *)
THEOREM LocksKept == Spec => []HeldStays
<1>1. IInv => HeldStays
    BY Zenon DEF IInv
<1> QED
    BY <1>1, Invariance, PTL

(* Temporary locks go with their request: none is left when the request    *)
(* that made it has returned (confirmLocks).                               *)
THEOREM TemporaryLocksGo == Spec => []NoLeakedLock
<1>1. IInv => NoLeakedLock
    BY Zenon DEF IInv
<1> QED
    BY <1>1, Invariance, PTL

(* A name that an active request claims has its temporary lock.            *)
LEMMA ActiveClaims ==
    ASSUME IInv, NEW r \in Reqs, req[r].pc = "active", NEW n \in Claims(r)
    PROVE  /\ n \in Names /\ lock[n] # None /\ lock[n].token \in TempTokens(r)
           /\ ~lock[n].held
<1>1. Plain(req[r]) /\ n \in {req[r].write.src, req[r].write.dst} /\ n # None
    BY Zenon DEF IInv, Requesting, Claims
<1>2. PICK t \in TempTokens(r) : Temporary(t, n)
    BY <1>1, Zenon DEF Plain, TempTokens
<1> QED
    BY <1>2, TempFacts, Zenon DEF Temporary

(* A name that a holding request claims is covered by one of its locks.    *)
LEMMA HoldingClaims ==
    ASSUME IInv, NEW r \in Reqs, req[r].pc = "holding", NEW n \in Claims(r)
    PROVE  n \in Names /\ \E h \in req[r].holds : h \in Names /\ Covers(h, n) /\ lock[h].held /\ lock[h] # None
<1>1. n \in req[r].claims /\ Holding(req[r]) /\ n \in Names /\ req[r].holds \subseteq Names
    BY Zenon DEF IInv, Requesting, Claims, ReqTyped
<1> QED
    BY <1>1, Zenon DEF Holding, IInv, HeldStays, Locked

(* Access is exclusive: no two requests at work claim the same name,       *)
(* whether by temporary locks or by confirmed ones (confirmLocks).         *)
THEOREM Exclusive == Spec => []ExclusiveAccess
<1>1. IInv => ExclusiveAccess
    <2> SUFFICES ASSUME IInv, NEW r \in Reqs, NEW s \in Reqs, r # s, NEW n, n \in Claims(r), n \in Claims(s)
                 PROVE  FALSE
        BY Zenon DEF ExclusiveAccess
    <2>1. req[r].pc \in {"active", "holding"} /\ req[s].pc \in {"active", "holding"}
        BY Zenon DEF Claims
    <2>2. \A l, m \in Names : lock[l] # None /\ lock[m] # None /\ l # m /\ l \in walkToRoot[m] => lock[l].zero
        BY Zenon DEF IInv, TableInv, Table, Apart
    <2>3. ASSUME NEW a \in Reqs, NEW b \in Reqs, req[a].pc = "active", req[b].pc = "holding",
                 n \in Claims(a), n \in Claims(b)
          PROVE  FALSE
        <3>1. n \in Names /\ lock[n] # None /\ ~lock[n].held
            BY <2>3, ActiveClaims, Zenon
        <3>2. PICK h \in req[b].holds : h \in Names /\ Covers(h, n) /\ lock[h].held /\ lock[h] # None
            BY <2>3, HoldingClaims, Zenon
        <3>3. h # n /\ ~lock[h].zero /\ h \in walkToRoot[n]
            BY <3>1, <3>2, Zenon DEF Covers
        <3> QED
            BY <2>2, <3>1, <3>2, <3>3, Zenon
    <2>4. CASE req[r].pc = "active" /\ req[s].pc = "active"
        <3>1. lock[n].token \in TempTokens(r) /\ lock[n].token \in TempTokens(s)
            BY <2>4, ActiveClaims, Zenon
        <3>2. TempTokens(r) \cap TempTokens(s) = {}
            BY Zenon DEF IInv, Requesting
        <3> QED
            BY <3>1, <3>2, Zenon
    <2>5. CASE req[r].pc = "holding" /\ req[s].pc = "holding"
        <3>1. PICK h \in req[r].holds : h \in Names /\ Covers(h, n) /\ lock[h].held /\ lock[h] # None
            BY <2>5, HoldingClaims, Zenon
        <3>2. PICK k \in req[s].holds : k \in Names /\ Covers(k, n) /\ lock[k].held /\ lock[k] # None
            BY <2>5, HoldingClaims, Zenon
        <3>3. n \in Names
            BY <2>5, HoldingClaims, Zenon
        <3>4. h # k
            BY <2>5, Zenon DEF IInv, HeldStays
        <3>5. h \in walkToRoot[n] /\ k \in walkToRoot[n]
            BY <3>1, <3>2, <3>3, WalkFacts, Zenon DEF Covers
        <3>6. CASE h \in walkToRoot[k]
            <4>1. lock[h].zero
                BY <2>2, <3>1, <3>2, <3>4, <3>6, Zenon
            <4>2. n = h
                BY <3>1, <4>1, Zenon DEF Covers
            <4> QED
                BY <3>1, <3>4, <3>5, <3>6, <4>2, WalkFacts, Zenon
        <3>7. CASE k \in walkToRoot[h]
            <4>1. lock[k].zero
                BY <2>2, <3>1, <3>2, <3>4, <3>7, Zenon
            <4>2. n = k
                BY <3>2, <4>1, Zenon DEF Covers
            <4> QED
                BY <3>2, <3>4, <3>5, <3>7, <4>2, WalkFacts, Zenon
        <3> QED
            BY <3>3, <3>5, <3>6, <3>7, WalkFacts, Zenon
    <2> QED
        BY <2>1, <2>3, <2>4, <2>5, Zenon
<1> QED
    BY <1>1, Invariance, PTL
=============================================================================
