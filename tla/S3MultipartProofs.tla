------------------------- MODULE S3MultipartProofs --------------------------
(***************************************************************************)
(* Proofs about S3Multipart, for every set of part numbers, bodies and     *)
(* requests, any number of parts sent and every overlap of the requests.   *)
(***************************************************************************)
EXTENDS S3Multipart, Integers, TLAPS

(* What the first n cells of a body look like on disk.                     *)
Prefix(b, n) == [i \in 1 .. n |-> <<b, i>>]

(* What may be in a file, whoever writes it.                               *)
Cells == (Bodies \X Nat) \cup {"hole"}
Contents == Seq(Cells)

Etags == {Body(b) : b \in Bodies}

(* What a client may ask to complete.                                      *)
Listing(l) ==
    /\ l \in Seq(PartNumbers \X Etags) /\ Len(l) > 0
    /\ \A i \in 1 .. Len(l) - 1 : l[i][1] < l[i + 1][1]

(* The first n parts of a list, one after the other.                       *)
Joined(c, l, n) ==
    /\ c \in Seq(Bodies \X Nat) /\ Len(c) = n * BodyLen
    /\ \A i \in 1 .. n, j \in 1 .. BodyLen : c[(i - 1) * BodyLen + j] = l[i][2][j]

Creating == [pc : {"create"}, p : PartNumbers, body : Bodies]
Writing == [pc : {"write"}, p : PartNumbers, body : Bodies, n : 0 .. BodyLen, ino : Nat]

Rest == {"idle", "remove", "files", "dir"}

(* The local states, but for what a completion holds.                      *)
Locals ==
    /\ DOMAIN at = Actors
    /\ \A a \in Actors :
          /\ at[a].pc \in Rest \cup {"create", "write", "validate", "open", "stream"}
          /\ at[a].pc = "create" => at[a] \in Creating
          /\ at[a].pc = "write" => at[a] \in Writing

Types ==
    /\ entry \in {"new", "live", "removed"}
    /\ file \in [PartNumbers -> {None} \cup DOMAIN data]
    /\ data \in Seq(Contents)
    /\ parts \in [PartNumbers -> {None} \cup Etags]
    /\ answered \subseteq PartNumbers \X Etags
    /\ touched \subseteq PartNumbers

(* Files of their own: no two parts share an inode, and a writer's inode   *)
(* is at no other part.  Unless another request wrote the part at the same *)
(* time, a writer is the only one and what it has written is there.        *)
Alone(r) ==
    at[r].p \notin twice =>
       /\ data[at[r].ino] = Prefix(at[r].body, at[r].n)
       /\ at[r].p \in touched
       /\ file[at[r].p] \in {None, at[r].ino}
       /\ \A q \in Reqs : Writes(q, at[r].p) => q = r

Own ==
    /\ \A p, q \in PartNumbers : file[p] = file[q] /\ file[p] # None => p = q
    /\ \A r \in Reqs : at[r].pc = "write" =>
          /\ at[r].ino \in DOMAIN data
          /\ \A p \in PartNumbers : file[p] = at[r].ino => p = at[r].p
          /\ \A q \in Reqs : at[q].pc = "write" /\ at[q].ino = at[r].ino => at[q].p = at[r].p
          /\ Alone(r)

(* The upload is over, as after a restart.                                 *)
Over == entry = "removed" /\ \A a \in Actors : at[a].pc \in {"idle", "remove"}

(* A recorded part that nobody writes is on disk as recorded, or gone; and *)
(* it goes only with its upload.                                           *)
Recorded(p) ==
    /\ p \notin touched /\ parts[p] # None =>
          /\ file[p] = None \/ data[file[p]] = parts[p]
          /\ entry # "removed" => file[p] # None
    /\ p \in touched /\ file[p] # None => Over \/ \E r \in Reqs : Writes(r, p)
    /\ entry # "removed" => \A r \in Reqs : Writes(r, p) => file[p] = at[r].ino

Kept == \A p \in PartNumbers \ twice : Recorded(p)

(* A part that a completion has open, or is to open.  It is as listed,     *)
(* unless it was written by two at once or during a completion.            *)
Shared == twice \cup resent

Holds(k, p, e) ==
    /\ \A o \in PartNumbers : file[o] = k => o = p
    /\ p \notin Shared => /\ data[k] = e
                          /\ \A s \in Reqs : at[s].pc = "write" => at[s].ino # k

Ready(p, e) ==
    p \notin Shared => /\ file[p] = None \/ data[file[p]] = e
                       /\ \A s \in Reqs : ~Writes(s, p)

(* The local state of a completion: it has open what it validated, and has *)
(* read it as listed.                                                      *)
Validates(q) == q = [pc |-> "validate", list |-> q.list] /\ Listing(q.list)

HasOpen(q) ==
    /\ Listing(q.list) /\ q.fds \in Seq(DOMAIN data) /\ Len(q.fds) <= Len(q.list)
    /\ \A i \in 1 .. Len(q.fds) : Holds(q.fds[i], q.list[i][1], q.list[i][2])

Opens(q) ==
    /\ q = [pc |-> "open", list |-> q.list, fds |-> q.fds]
    /\ HasOpen(q) /\ Len(q.fds) < Len(q.list)
    /\ \A i \in 1 .. Len(q.list) : Ready(q.list[i][1], q.list[i][2])

Streams(q) ==
    /\ q = [pc |-> "stream", list |-> q.list, fds |-> q.fds, got |-> q.got, read |-> q.read]
    /\ HasOpen(q) /\ Len(q.fds) = Len(q.list)
    /\ q.read \in 0 .. Len(q.fds)
    /\ Listed(q.list) \cap Shared = {} => Joined(q.got, q.list, q.read)

Fits(q) ==
    /\ q.pc = "validate" => Validates(q)
    /\ q.pc = "open" => Opens(q)
    /\ q.pc = "stream" => Streams(q)

Reads == \A r \in Reqs : Fits(at[r])

SInv == Types /\ Locals /\ Own /\ Kept /\ Reads /\ ObjectMatches

(* The removal of an upload.                                               *)
Removals ==
    \A a \in Actors :
       /\ at[a].pc \in {"files", "dir"} => entry = "removed"
       /\ at[a].pc = "dir" => late \/ Emptied

RInv == DOMAIN at = Actors /\ Removals /\ DirReclaimed
-----------------------------------------------------------------------------
(* The removal of an upload.                                               *)

(* A step of one actor that neither starts nor ends a removal, and brings  *)
(* no file to a directory that is being removed.                           *)
LEMMA RemovalFrame ==
  ASSUME RInv, NEW a \in Actors, NEW local,
         at' = [at EXCEPT ![a] = local],
         at[a].pc \notin {"files", "dir"}, local.pc \notin {"files", "dir"},
         entry' = entry, dir' = dir, late => late',
         file' = file \/ late' \/ entry # "removed"
  PROVE  RInv'
<1>1. DOMAIN at' = Actors /\ at'[a] = local /\ \A b \in Actors : b # a => at'[b] = at[b]
  BY Zenon DEF RInv
<1>2. Removals'
  BY <1>1, Zenon DEF RInv, Removals, Emptied
<1>3. DirReclaimed'
  BY <1>1, Zenon DEF RInv, DirReclaimed, Removing
<1> QED
  BY <1>1, <1>2, <1>3, Zenon DEF RInv

(* Every step keeps the order in which an upload is removed.               *)
LEMMA NextRInv == RInv /\ [Next]_vars => RInv'
<1> SUFFICES ASSUME RInv, [Next]_vars PROVE RInv'
  BY Zenon
<1>1. CASE UNCHANGED vars
  BY <1>1, Zenon DEF vars, upload, history, RInv, Removals, DirReclaimed, Removing, Emptied
<1>2. CASE CreateMultipartUpload
  BY <1>2, Zenon DEF CreateMultipartUpload, RInv, Removals, DirReclaimed, Removing, Emptied
<1>3. CASE Age
  BY <1>3, Zenon DEF Age, RInv, Removals, DirReclaimed, Removing, Emptied
<1>4. CASE Restart
  BY <1>4, Zenon DEF Restart, RInv, Removals, DirReclaimed, Removing, Emptied, Idle
<1>5. CASE ReapExpired
  BY <1>5, RemovalFrame, Zenon DEF ReapExpired, Goto, upload, Actors
<1>6. ASSUME NEW r \in Reqs, Request(r) PROVE RInv'
  BY <1>6, RemovalFrame DEF Request, LoadUpload, LoadCompletion, AbortMultipartUpload, Goto,
                            upload, Actors
<1>7. ASSUME NEW r \in Reqs, Handler(r) PROVE RInv'
  <2>0. r \in Actors
    BY <1>7, Zenon DEF Actors
  <2>1. CASE CreateFile(r)
    <3>1. CASE ~dir
      BY <2>0, <2>1, <3>1, RemovalFrame DEF CreateFile, Goto, Idle
    <3>2. CASE dir
      <4> PICK ino : ino = IF file[at[r].p] = None THEN Len(data) + 1 ELSE file[at[r].p]
        BY Zenon
      <4> PICK local : local = [pc |-> "write", p |-> at[r].p, body |-> at[r].body, n |-> 0, ino |-> ino]
        BY Zenon
      <4>1. at' = [at EXCEPT ![r] = local] /\ local.pc = "write"
        BY <2>1, <3>2, Zenon DEF CreateFile, Goto
      <4>2. /\ at[r].pc = "create" /\ entry' = entry /\ dir' = dir
            /\ late' = (late \/ entry # "live")
        BY <2>1, <3>2, Zenon DEF CreateFile
      <4> QED
        BY <2>0, <4>1, <4>2, RemovalFrame, Zenon
    <3> QED
      BY <3>1, <3>2, Zenon
  <2>2. CASE WriteCell(r)
    <3>1. PICK local : at' = [at EXCEPT ![r] = local] /\ local = [at[r] EXCEPT !.n = at[r].n + 1]
      BY <2>2, Zenon DEF WriteCell, Goto
    <3>2. local.pc = at[r].pc
      BY <3>1
    <3> QED
      BY <2>0, <2>2, <3>1, <3>2, RemovalFrame, Zenon DEF WriteCell
  <2>3. CASE FailPart(r)
    <3>1. PICK f : f = [file EXCEPT ![at[r].p] = None]
      BY Zenon
    <3>2. /\ at' = [at EXCEPT ![r] = Idle] /\ at[r].pc = "write" /\ file' = f
          /\ entry' = entry /\ dir' = dir /\ late' = late
      BY <2>3, <3>1, Zenon DEF FailPart, Goto
    <3>3. Emptied => Emptied'
      BY <3>1, <3>2 DEF Emptied
    <3>4. /\ DOMAIN at' = Actors /\ at'[r].pc = "idle"
          /\ \A b \in Actors : b # r => at'[b] = at[b]
      BY <2>0, <3>2, Zenon DEF RInv, Idle
    <3>5. Removals'
      BY <3>2, <3>3, <3>4, Zenon DEF RInv, Removals
    <3>6. DirReclaimed'
      BY <3>2, <3>4, Zenon DEF RInv, DirReclaimed, Removing
    <3> QED
      BY <3>4, <3>5, <3>6, Zenon DEF RInv
  <2>4. CASE RecordPart(r)
    BY <2>0, <2>4, RemovalFrame, Zenon DEF RecordPart, Goto, Idle
  <2>5. CASE ValidateParts(r)
    BY <2>0, <2>5, RemovalFrame, Zenon DEF ValidateParts, Goto, Idle
  <2>6. CASE OpenPart(r)
    <3> PICK fds : fds = Append(at[r].fds, file[NextToOpen(at[r])])
      BY Zenon
    <3>0. /\ at[r].pc = "open"
          /\ \/ Goto(r, Idle)
             \/ Goto(r, [at[r] EXCEPT !.fds = fds])
             \/ Goto(r, [pc |-> "stream", list |-> at[r].list, fds |-> fds, got |-> <<>>, read |-> 0])
      BY <2>6, Zenon DEF OpenPart
    <3>1. PICK local : at' = [at EXCEPT ![r] = local] /\ local.pc \in {"idle", "open", "stream"}
      <4>1. CASE Goto(r, Idle)
        <5>1. Idle.pc = "idle"
          BY Zenon DEF Idle
        <5> QED
          BY <4>1, <5>1, Zenon DEF Goto
      <4>2. CASE Goto(r, [at[r] EXCEPT !.fds = fds])
        <5> PICK local : local = [at[r] EXCEPT !.fds = fds]
          BY Zenon
        <5>1. local.pc = "open"
          BY <3>0
        <5> QED
          BY <4>2, <5>1, Zenon DEF Goto
      <4>3. CASE Goto(r, [pc |-> "stream", list |-> at[r].list, fds |-> fds, got |-> <<>>, read |-> 0])
        <5> PICK local : local = [pc |-> "stream", list |-> at[r].list, fds |-> fds, got |-> <<>>, read |-> 0]
          BY Zenon
        <5>1. local.pc = "stream"
          BY Zenon
        <5> QED
          BY <4>3, <5>1, Zenon DEF Goto
      <4> QED
        BY <3>0, <4>1, <4>2, <4>3, Zenon
    <3> QED
      BY <2>0, <2>6, <3>1, RemovalFrame, Zenon DEF OpenPart
  <2>7. CASE StreamPart(r)
    <3> PICK local : local = [at[r] EXCEPT !.got = at[r].got \o data[at[r].fds[at[r].read + 1]],
                                            !.read = at[r].read + 1]
      BY Zenon
    <3>1. at' = [at EXCEPT ![r] = local] /\ local.pc = at[r].pc
      BY <2>7 DEF StreamPart, Goto
    <3> QED
      BY <2>0, <2>7, <3>1, RemovalFrame, Zenon DEF StreamPart, upload
  <2>8. CASE PutReturns(r)
    BY <2>0, <2>8, RemovalFrame, Zenon DEF PutReturns, Goto, Idle, upload
  <2> QED
    BY <1>7, <2>1, <2>2, <2>3, <2>4, <2>5, <2>6, <2>7, <2>8, Zenon DEF Handler
<1>8. ASSUME NEW a \in Actors, Removal(a) PROVE RInv'
  <2>1. CASE LoadAndDelete(a)
    BY <2>1 DEF LoadAndDelete, Goto, Idle, RInv, Removals, DirReclaimed, Removing, Emptied
  <2>2. CASE RemoveFiles(a)
    BY <2>2, Zenon DEF RemoveFiles, Goto, RInv, Removals, DirReclaimed, Removing, Emptied
  <2>3. CASE RemoveDir(a)
    BY <2>3, Zenon DEF RemoveDir, Goto, Idle, RInv, Removals, DirReclaimed, Removing, Emptied
  <2> QED
    BY <1>8, <2>1, <2>2, <2>3, Zenon DEF Removal
<1> QED
  BY <1>1, <1>2, <1>3, <1>4, <1>5, <1>6, <1>7, <1>8, Zenon DEF Next

(* The directory of an upload goes with it.  It stays behind only when a   *)
(* part request that had looked the upload up creates a file in between,   *)
(* or when the server died: removeUpload takes the entry first, and only   *)
(* then the files.                                                         *)
THEOREM DirectoriesGo == Spec => []DirReclaimed
<1>1. Init => RInv
  BY DEF Init, RInv, Removals, DirReclaimed, Idle
<1>2. RInv => DirReclaimed
  BY Zenon DEF RInv
<1> QED
  BY <1>1, <1>2, NextRInv, PTL DEF Spec
-----------------------------------------------------------------------------
(* A body is its own whole prefix, and is the etag it is recorded under.   *)
LEMMA Bodies1 ==
  ASSUME NEW b \in Bodies
  PROVE  /\ Body(b) = Prefix(b, BodyLen) /\ SubSeq(Body(b), 1, BodyLen) = Body(b)
         /\ Body(b) \in Etags /\ Body(b) \in Seq(Bodies \X Nat) /\ Len(Body(b)) = BodyLen
         /\ Prefix(b, 0) = << >>
<1>1. BodyLen \in Nat
  BY S3Assumption, Zenon
<1>2. Body(b) = Prefix(b, BodyLen) /\ Body(b) \in Etags
  BY Zenon DEF Body, Prefix, Etags
<1>3. Body(b) \in Seq(Bodies \X Nat) /\ Len(Body(b)) = BodyLen
  BY <1>1 DEF Body
<1>4. SubSeq(Body(b), 1, BodyLen) = Body(b)
  BY <1>1, <1>3
<1>5. Prefix(b, 0) = << >>
  BY DEF Prefix
<1> QED
  BY <1>2, <1>3, <1>4, <1>5, Zenon

(* A cell written at the end of a prefix makes it longer.                  *)
LEMMA PrefixGrows ==
  ASSUME NEW b \in Bodies, NEW n \in 0 .. BodyLen, n < BodyLen
  PROVE  WrittenAt(Prefix(b, n), n + 1, Body(b)[n + 1]) = Prefix(b, n + 1)
<1>1. BodyLen \in Nat /\ n \in Nat /\ n + 1 \in 0 .. BodyLen
  BY S3Assumption
<1>2. Len(Prefix(b, n)) = n /\ Body(b)[n + 1] = <<b, n + 1>>
  BY <1>1 DEF Prefix, Body
<1>3. WrittenAt(Prefix(b, n), n + 1, Body(b)[n + 1]) =
        [j \in 1 .. n + 1 |-> IF j = n + 1 THEN <<b, n + 1>> ELSE IF j <= n THEN Prefix(b, n)[j] ELSE "hole"]
  BY <1>1, <1>2 DEF WrittenAt
<1>4. \A j \in 1 .. n + 1 :
        (IF j = n + 1 THEN <<b, n + 1>> ELSE IF j <= n THEN Prefix(b, n)[j] ELSE "hole") = <<b, j>>
  BY <1>1 DEF Prefix
<1> QED
  BY <1>3, <1>4, Zenon DEF Prefix

(* A cell written anywhere leaves a content.                               *)
LEMMA WrittenTyped ==
  ASSUME NEW c \in Contents, NEW b \in Bodies, NEW n \in 0 .. BodyLen, n < BodyLen
  PROVE  WrittenAt(c, n + 1, Body(b)[n + 1]) \in Contents
<1>1. PICK S : S = Cells
  BY Zenon
<1>2. c \in Seq(S) /\ "hole" \in S
  BY <1>1, Zenon DEF Contents, Cells
<1>3. n \in Nat /\ n + 1 \in 1 .. BodyLen
  BY S3Assumption
<1>4. PICK e \in S : e = Body(b)[n + 1]
  <2>1. Body(b)[n + 1] = <<b, n + 1>>
    BY <1>3, Zenon DEF Body
  <2>2. n + 1 \in Nat
    BY <1>3
  <2>3. <<b, n + 1>> \in Cells
    BY <2>2, Zenon DEF Cells
  <2> QED
    BY <1>1, <2>1, <2>3, Zenon
<1>5. PICK m \in Nat : m = IF n + 1 > Len(c) THEN n + 1 ELSE Len(c)
  BY <1>2, <1>3
<1>6. \A j \in 1 .. m : (IF j = n + 1 THEN e ELSE IF j <= Len(c) THEN c[j] ELSE "hole") \in S
  BY <1>2, <1>3
<1>7. WrittenAt(c, n + 1, e) = [j \in 1 .. m |-> IF j = n + 1 THEN e ELSE IF j <= Len(c) THEN c[j] ELSE "hole"]
  BY <1>5, Zenon DEF WrittenAt
<1>8. WrittenAt(c, n + 1, e) \in [1 .. m -> S]
  BY <1>6, <1>7, Zenon
<1>9. WrittenAt(c, n + 1, e) \in Seq(S)
  BY <1>8
<1> QED
  BY <1>1, <1>4, <1>9, Zenon DEF Contents

(* An earlier part ends before a later one begins.                         *)
LEMMA PartEnds ==
  ASSUME NEW n \in Nat, NEW a \in Int, NEW b \in Int, a < b
  PROVE  a * n + n <= b * n
<1>1. PICK d \in Nat : b = a + 1 + d
  <2>1. b - a - 1 \in Nat
    OBVIOUS
  <2> QED
    BY <2>1
<1>2. b * n = a * n + n + d * n
  BY <1>1
<1>3. d * n \in Nat
  OBVIOUS
<1>4. a * n \in Int /\ b * n \in Int
  OBVIOUS
<1> QED
  BY <1>2, <1>3, <1>4

(* Two sequences, one after the other.                                     *)
LEMMA Concatenation ==
  ASSUME NEW S, NEW c \in Seq(S), NEW d \in Seq(S)
  PROVE  /\ c \o d \in Seq(S) /\ Len(c \o d) = Len(c) + Len(d)
         /\ \A i \in 1 .. Len(c) : (c \o d)[i] = c[i]
         /\ \A j \in 1 .. Len(d) : (c \o d)[Len(c) + j] = d[j]
OBVIOUS

(* Reading the next part continues what was read.                          *)
LEMMA JoinNext ==
  ASSUME NEW l, Listing(l), NEW n \in Nat, n < Len(l), NEW c, Joined(c, l, n)
  PROVE  Joined(c \o l[n + 1][2], l, n + 1)
<1>1. PICK b \in Bodies : l[n + 1][2] = Body(b)
  <2>1. n + 1 \in 1 .. Len(l) /\ l \in Seq(PartNumbers \X Etags)
    BY DEF Listing
  <2>2. l[n + 1] \in PartNumbers \X Etags
    BY <2>1
  <2> QED
    BY <2>2, Zenon DEF Etags
<1>2. PICK d : d = Body(b) /\ d \in Seq(Bodies \X Nat) /\ Len(d) = BodyLen
  BY Bodies1, Zenon
<1>3. BodyLen \in Nat /\ BodyLen > 0
  BY S3Assumption
<1>4. PICK m \in Nat : m = n * BodyLen
  BY <1>3
<1>5. (n + 1) * BodyLen = m + BodyLen
  BY <1>3, <1>4
<1>6. c \in Seq(Bodies \X Nat) /\ Len(c) = m
  BY <1>4, Zenon DEF Joined
<1>7. /\ c \o d \in Seq(Bodies \X Nat) /\ Len(c \o d) = m + BodyLen
      /\ \A i \in 1 .. m : (c \o d)[i] = c[i]
      /\ \A j \in 1 .. BodyLen : (c \o d)[m + j] = d[j]
  <2>1. PICK S : S = Bodies \X Nat
    BY Zenon
  <2>2. c \in Seq(S) /\ d \in Seq(S)
    BY <1>2, <1>6, <2>1, Zenon
  <2>3. /\ c \o d \in Seq(S) /\ Len(c \o d) = Len(c) + Len(d)
        /\ \A i \in 1 .. Len(c) : (c \o d)[i] = c[i]
        /\ \A j \in 1 .. Len(d) : (c \o d)[Len(c) + j] = d[j]
    BY <2>2, Concatenation
  <2> QED
    BY <1>2, <1>6, <2>1, <2>3, Zenon
<1>8. ASSUME NEW i \in 1 .. n + 1, NEW j \in 1 .. BodyLen
      PROVE  (c \o d)[(i - 1) * BodyLen + j] = l[i][2][j]
  <2>1. PICK k \in Int : k = (i - 1) * BodyLen
    BY <1>3
  <2>2. CASE i = n + 1
    <3>1. k = m
      BY <1>4, <2>1, <2>2
    <3>2. (c \o d)[m + j] = d[j]
      BY <1>7, Zenon
    <3> QED
      BY <1>1, <1>2, <2>1, <2>2, <3>1, <3>2, Zenon
  <2>3. CASE i # n + 1
    <3>1. i \in 1 .. n /\ i - 1 < n /\ i - 1 \in Int /\ n \in Int /\ i - 1 >= 0
      BY <2>3
    <3>2. k + BodyLen <= m
      BY <1>3, <1>4, <2>1, <3>1, PartEnds, Zenon
    <3>3. k >= 0
      BY <1>3, <2>1, <3>1
    <3>4. k + j \in 1 .. m
      BY <1>3, <3>2, <3>3
    <3>5. (c \o d)[k + j] = c[k + j]
      BY <1>7, <3>4, Zenon
    <3>6. c[k + j] = l[i][2][j]
      BY <2>1, <3>1, Zenon DEF Joined
    <3> QED
      BY <2>1, <3>5, <3>6, Zenon
  <2> QED
    BY <2>2, <2>3, Zenon
<1>9. Joined(c \o d, l, n + 1)
  BY <1>5, <1>7, <1>8, Zenon DEF Joined
<1> QED
  BY <1>1, <1>2, <1>9, Zenon
-----------------------------------------------------------------------------
(* Frames.                                                                 *)
-----------------------------------------------------------------------------
(* Frames.                                                                 *)
LEMMA OneMoves ==
  ASSUME Locals, NEW a \in Actors, NEW local, at' = [at EXCEPT ![a] = local]
  PROVE  /\ DOMAIN at' = Actors /\ at'[a] = local
         /\ \A b \in Actors : b # a => at'[b] = at[b]
         /\ Reqs \subseteq Actors
BY Zenon DEF Locals, Actors

(* A step leaves alone what a completion has of a part.                    *)
Spares(p) ==
    /\ p \in Shared => p \in Shared'
    /\ \A k \in DOMAIN data, e \in Etags : Holds(k, p, e) => Holds(k, p, e)'
    /\ \A e \in Etags : Ready(p, e) => Ready(p, e)'

(* The entries of a list.                                                  *)
LEMMA Entries ==
  ASSUME NEW l, Listing(l)
  PROVE  /\ DOMAIN l = 1 .. Len(l) /\ Len(l) \in Nat
         /\ \A i \in 1 .. Len(l) : l[i][1] \in PartNumbers /\ l[i][2] \in Etags /\ l[i][1] \in Listed(l)
<1> PICK S : S = PartNumbers \X Etags
  BY Zenon
<1>1. l \in Seq(S)
  BY Zenon DEF Listing
<1>2. DOMAIN l = 1 .. Len(l) /\ Len(l) \in Nat /\ \A i \in 1 .. Len(l) : l[i] \in S
  BY <1>1
<1>3. \A i \in 1 .. Len(l) : l[i][1] \in PartNumbers /\ l[i][2] \in Etags
  BY <1>2, Zenon
<1>4. \A i \in 1 .. Len(l) : l[i][1] \in Listed(l)
  BY <1>2, Zenon DEF Listed
<1> QED
  BY <1>2, <1>3, <1>4, Zenon

(* Open files stay files when there are more of them.                      *)
LEMMA MoreFiles ==
  ASSUME NEW S, NEW T, S \subseteq T, NEW f \in Seq(S)
  PROVE  f \in Seq(T) /\ Len(f) \in Nat /\ \A i \in 1 .. Len(f) : f[i] \in S
OBVIOUS

(* A completion goes on as before when every part it lists is left alone.  *)
LEMMA FitsFrame ==
  ASSUME NEW q, Fits(q), DOMAIN data \subseteq DOMAIN data',
         q.pc \in {"open", "stream"} => \A p \in Listed(q.list) : Spares(p)
  PROVE  Fits(q)'
<1>1. ASSUME q.pc \in {"open", "stream"}, HasOpen(q) PROVE HasOpen(q)'
  <2>1. Listing(q.list) /\ q.fds \in Seq(DOMAIN data) /\ Len(q.fds) <= Len(q.list)
    BY <1>1, Zenon DEF HasOpen
  <2>2. /\ q.fds \in Seq(DOMAIN data') /\ Len(q.fds) \in Nat
        /\ \A i \in 1 .. Len(q.fds) : q.fds[i] \in DOMAIN data
    BY <2>1, MoreFiles, Zenon
  <2>3. ASSUME NEW i \in 1 .. Len(q.fds)
        PROVE  Holds(q.fds[i], q.list[i][1], q.list[i][2])'
    <3> PICK k, p, e : k = q.fds[i] /\ p = q.list[i][1] /\ e = q.list[i][2]
      BY Zenon
    <3>0. i \in 1 .. Len(q.list)
      <4>1. Len(q.list) \in Nat
        BY <2>1, Entries, Zenon
      <4> QED
        BY <2>1, <2>2, <4>1
    <3>1. p \in Listed(q.list) /\ e \in Etags /\ k \in DOMAIN data
      BY <2>1, <2>2, <3>0, Entries, Zenon
    <3>2. Holds(k, p, e)
      BY <1>1, Zenon DEF HasOpen
    <3>3. Holds(k, p, e)'
      BY <1>1, <3>1, <3>2, Zenon DEF Spares
    <3> QED
      BY <3>3, Zenon
  <2> QED
    BY <2>1, <2>2, <2>3, Zenon DEF HasOpen
<1>2. ASSUME q.pc = "open", Opens(q) PROVE Opens(q)'
  <2>1. HasOpen(q) /\ Listing(q.list)
    BY <1>2, Zenon DEF Opens, HasOpen
  <2>2. ASSUME NEW i \in 1 .. Len(q.list) PROVE Ready(q.list[i][1], q.list[i][2])'
    <3> PICK p, e : p = q.list[i][1] /\ e = q.list[i][2]
      BY Zenon
    <3>1. p \in Listed(q.list) /\ e \in Etags
      BY <2>1, Entries, Zenon
    <3>2. Ready(p, e)
      BY <1>2, Zenon DEF Opens
    <3>3. Ready(p, e)'
      BY <1>2, <3>1, <3>2, Zenon DEF Spares
    <3> QED
      BY <3>3, Zenon
  <2> QED
    BY <1>1, <1>2, <2>1, <2>2, Zenon DEF Opens
<1>3. ASSUME q.pc = "stream", Streams(q) PROVE Streams(q)'
  <2>1. Listed(q.list) \cap Shared' = {} => Listed(q.list) \cap Shared = {}
    BY <1>3, Zenon DEF Spares
  <2>2. HasOpen(q)'
    BY <1>1, <1>3, Zenon DEF Streams
  <2> QED
    BY <1>3, <2>1, <2>2, Zenon DEF Streams
<1> QED
  BY <1>2, <1>3, Zenon DEF Fits, Validates

(* One actor moves: what is to be shown of its step.                       *)
LEMMA Moves ==
  ASSUME SInv, NEW a \in Actors, NEW local, at' = [at EXCEPT ![a] = local],
         local.pc \in Rest \cup {"create", "write", "validate", "open", "stream"},
         local.pc = "create" => local \in Creating,
         local.pc = "write" => local \in Writing,
         Types', Own', Kept', Fits(local)', ObjectMatches',
         DOMAIN data \subseteq DOMAIN data',
         \A q \in Reqs : q # a /\ at[q].pc \in {"open", "stream"} =>
            \A p \in Listed(at[q].list) : Spares(p)
  PROVE  SInv'
<1>0. Locals /\ Reads
  BY Zenon DEF SInv
<1>1. /\ DOMAIN at' = Actors /\ at'[a] = local
      /\ \A b \in Actors : b # a => at'[b] = at[b]
      /\ Reqs \subseteq Actors
  BY <1>0, OneMoves, Zenon
<1>2. Locals'
  BY <1>0, <1>1, Zenon DEF Locals
<1>3. Reads'
  <2> SUFFICES ASSUME NEW q \in Reqs PROVE Fits(at[q])'
    BY Zenon DEF Reads
  <2>1. CASE q = a
    BY <1>1, <2>1, Zenon
  <2>2. CASE q # a
    <3> PICK l : l = at[q]
      BY Zenon
    <3>1. Fits(l)
      BY <1>0, Zenon DEF Reads
    <3>2. l.pc \in {"open", "stream"} => \A p \in Listed(l.list) : Spares(p)
      BY <2>2, Zenon
    <3>3. Fits(l)'
      BY <3>1, <3>2, FitsFrame, Zenon
    <3> QED
      BY <1>1, <2>2, <3>3, Zenon
  <2> QED
    BY <2>1, <2>2, Zenon
<1> QED
  BY <1>2, <1>3, Zenon DEF SInv

(* The same writers at the same work.                                      *)
SameWriters ==
    \A r \in Reqs : /\ at[r].pc = "write" <=> at'[r].pc = "write"
                    /\ at[r].pc = "write" => at'[r] = at[r]

(* A completion keeps what it has when files are only removed and writers  *)
(* only stop.                                                              *)
LEMMA SparesAll ==
  ASSUME Types, data' = data, twice' = twice, resent \subseteq resent',
         \A o \in PartNumbers : file'[o] \in {file[o], None},
         \A r \in Reqs : at'[r].pc = "write" => at[r].pc = "write" /\ at'[r] = at[r],
         NEW p \in PartNumbers
  PROVE  Spares(p)
<1>1. p \in Shared => p \in Shared'
  BY Zenon DEF Shared
<1>2. ASSUME NEW k \in DOMAIN data, NEW e \in Etags, Holds(k, p, e) PROVE Holds(k, p, e)'
  <2>1. k # None
    BY NoneAssumption DEF Types
  <2>2. \A o \in PartNumbers : file'[o] = k => o = p
    BY <1>2, <2>1 DEF Holds
  <2> QED
    BY <1>1, <1>2, <2>2, Zenon DEF Holds
<1>3. ASSUME NEW e \in Etags, Ready(p, e) PROVE Ready(p, e)'
  <2>1. \A r \in Reqs : Writes(r, p)' => Writes(r, p)
    BY Zenon DEF Writes
  <2>2. file'[p] \in {file[p], None}
    OBVIOUS
  <2> QED
    BY <1>1, <1>3, <2>1, <2>2 DEF Ready
<1> QED
  BY <1>1, <1>2, <1>3, Zenon DEF Spares

(* What the files are to the writers and the completions does not change   *)
(* when nobody writes, even when the files are removed.                    *)
LEMMA QuietFiles ==
  ASSUME SInv, SameWriters, Over => Over',
         data' = data, parts' = parts, touched' = touched, twice' = twice, resent \subseteq resent',
         entry' # "removed" => entry # "removed",
         \/ file' = file
         \/ file' = [p \in PartNumbers |-> None] /\ entry' = "removed"
  PROVE  Own' /\ Kept' /\ \A p \in PartNumbers : Spares(p)
<1>0. Types /\ Own /\ Kept /\ Locals
  BY Zenon DEF SInv
<1>1. \A p \in PartNumbers : file'[p] \in {file[p], None}
  BY Zenon
<1>2. \A r \in Reqs : at[r].pc = "write" => at[r].p \in PartNumbers /\ at[r].ino # None
  BY <1>0, NoneAssumption, Zenon DEF Locals, Writing, Actors
<1>3. Own'
  <2>1. \A p, q \in PartNumbers : file'[p] = file'[q] /\ file'[p] # None => p = q
    BY <1>0, <1>1 DEF Own
  <2>2. ASSUME NEW r \in Reqs, at'[r].pc = "write"
        PROVE  /\ at'[r].ino \in DOMAIN data'
               /\ \A p \in PartNumbers : file'[p] = at'[r].ino => p = at'[r].p
               /\ \A q \in Reqs : at'[q].pc = "write" /\ at'[q].ino = at'[r].ino => at'[q].p = at'[r].p
               /\ Alone(r)'
    <3>1. at[r].pc = "write" /\ at'[r] = at[r]
      BY <2>2, Zenon DEF SameWriters
    <3>2. /\ at[r].ino \in DOMAIN data
          /\ \A p \in PartNumbers : file[p] = at[r].ino => p = at[r].p
          /\ \A q \in Reqs : at[q].pc = "write" /\ at[q].ino = at[r].ino => at[q].p = at[r].p
          /\ Alone(r)
      BY <1>0, <3>1, Zenon DEF Own
    <3>3. \A p \in PartNumbers : file'[p] = at[r].ino => p = at[r].p
      BY <1>1, <1>2, <3>1, <3>2
    <3>4. \A q \in Reqs : at'[q].pc = "write" /\ at'[q].ino = at[r].ino => at'[q].p = at[r].p
      BY <3>2, Zenon DEF SameWriters
    <3>5. Alone(r)'
      <4>1. \A q \in Reqs : Writes(q, at[r].p)' <=> Writes(q, at[r].p)
        BY <3>1, Zenon DEF SameWriters, Writes
      <4>2. at[r].p \in PartNumbers
        BY <1>2, <3>1, Zenon
      <4> QED
        BY <1>1, <3>1, <3>2, <4>1, <4>2 DEF Alone
    <3> QED
      BY <3>1, <3>2, <3>3, <3>4, <3>5, Zenon
  <2> QED
    BY <2>1, <2>2, Zenon DEF Own
<1>4. Kept'
  <2> SUFFICES ASSUME NEW p \in PartNumbers, p \notin twice PROVE Recorded(p)'
    BY Zenon DEF Kept
  <2>1. Recorded(p)
    BY <1>0, Zenon DEF Kept
  <2>2. \A r \in Reqs : (Writes(r, p)' <=> Writes(r, p)) /\ (Writes(r, p) => at'[r] = at[r])
    BY Zenon DEF SameWriters, Writes
  <2>3. CASE file' = file
    BY <2>1, <2>2, <2>3 DEF Recorded
  <2>4. CASE file' = [o \in PartNumbers |-> None] /\ entry' = "removed"
    <3>1. file'[p] = None
      BY <2>4, Zenon
    <3> QED
      BY <2>4, <3>1, Zenon DEF Recorded
  <2> QED
    BY <2>3, <2>4, Zenon
<1>5. ASSUME NEW p \in PartNumbers PROVE Spares(p)
  <2>1. \A r \in Reqs : at'[r].pc = "write" => at[r].pc = "write" /\ at'[r] = at[r]
    BY Zenon DEF SameWriters
  <2> QED
    BY <1>0, <1>1, <2>1, SparesAll, Zenon
<1> QED
  BY <1>3, <1>4, <1>5, Zenon

(* An actor that writes no part goes on without writing one.               *)
LEMMA Quiet ==
  ASSUME SInv, NEW a \in Actors, NEW local, at' = [at EXCEPT ![a] = local],
         at[a].pc # "write",
         local.pc \in Rest \cup {"create", "validate", "open", "stream"},
         local.pc = "create" => local \in Creating,
         Fits(local) \/ Fits(local)',
         local.pc \in {"open", "stream"} => Listed(local.list) \subseteq PartNumbers,
         UNCHANGED <<data, parts, answered, touched, twice>>, resent \subseteq resent',
         entry' \in {"new", "live", "removed"}, entry' # "removed" => entry # "removed",
         \/ file' = file
         \/ file' = [p \in PartNumbers |-> None] /\ entry' = "removed",
         Over => Over', ObjectMatches'
  PROVE  SInv'
<1>0. Types /\ Locals /\ Reads
  BY Zenon DEF SInv
<1>1. /\ DOMAIN at' = Actors /\ at'[a] = local
      /\ \A b \in Actors : b # a => at'[b] = at[b]
      /\ Reqs \subseteq Actors
  BY <1>0, OneMoves, Zenon
<1>2. SameWriters
  BY <1>1, Zenon DEF SameWriters, Rest
<1>3. Own' /\ Kept' /\ \A p \in PartNumbers : Spares(p)
  BY <1>2, QuietFiles, Zenon
<1>4. Types'
  <2>1. file' \in [PartNumbers -> {None} \cup DOMAIN data]
    BY <1>0, Zenon DEF Types
  <2> QED
    BY <1>0, <2>1, Zenon DEF Types
<1>5. \A q \in Reqs : q # a /\ at[q].pc \in {"open", "stream"} =>
         \A p \in Listed(at[q].list) : Spares(p)
  <2> SUFFICES ASSUME NEW q \in Reqs, at[q].pc \in {"open", "stream"}, NEW p \in Listed(at[q].list)
               PROVE  p \in PartNumbers
    BY <1>3, Zenon
  <2> PICK l : l = at[q].list
    BY Zenon
  <2>1. Listing(l)
    BY <1>0, Zenon DEF Reads, Fits, Opens, Streams, HasOpen
  <2>2. PICK i \in DOMAIN l : p = l[i][1]
    BY Zenon DEF Listed
  <2> QED
    BY <2>1, <2>2, Entries, Zenon
<1>6. Fits(local)'
  BY <1>3, FitsFrame, Zenon
<1>7. DOMAIN data \subseteq DOMAIN data'
  BY Zenon
<1>8. local.pc # "write" /\ local.pc \in Rest \cup {"create", "write", "validate", "open", "stream"}
  BY Zenon DEF Rest
<1> QED
  BY <1>3, <1>4, <1>5, <1>6, <1>7, <1>8, Moves, Zenon

(* The parts a completion lists are part numbers.                          *)
LEMMA ListsParts ==
  ASSUME SInv, NEW q \in Reqs, at[q].pc \in {"open", "stream"}
  PROVE  Listed(at[q].list) \subseteq PartNumbers
<1> PICK l : l = at[q].list
  BY Zenon
<1>1. Listing(l)
  BY Zenon DEF SInv, Reads, Fits, Opens, Streams, HasOpen
<1>2. \A i \in DOMAIN l : l[i][1] \in PartNumbers
  BY <1>1, Entries, Zenon
<1> QED
  BY <1>2, Zenon DEF Listed

(* The object stays good.                                                  *)
LEMMA SameObject ==
  ASSUME ObjectMatches, object' = object
  PROVE  ObjectMatches'
BY DEF ObjectMatches, Assembled
-----------------------------------------------------------------------------
(* Uploads of parts.                                                       *)

(* An upload is looked up.                                                 *)
LEMMA LoadUploadStep ==
  ASSUME SInv, NEW r \in Reqs, LoadUpload(r)
  PROVE  SInv'
<1>1. PICK p \in PartNumbers, b \in Bodies : Goto(r, [pc |-> "create", p |-> p, body |-> b])
  BY Zenon DEF LoadUpload
<1> PICK local : local = [pc |-> "create", p |-> p, body |-> b]
  BY Zenon
<1>2. local \in Creating /\ local.pc = "create" /\ Fits(local)
  BY Zenon DEF Creating, Fits
<1>3. /\ at[r].pc = "idle" /\ entry = "live" /\ at' = [at EXCEPT ![r] = local]
      /\ UNCHANGED <<entry, file, data, parts, answered, touched, twice, resent, object>>
  BY <1>1, Zenon DEF LoadUpload, Goto, upload, history
<1>4. r \in Actors /\ ~Over /\ ObjectMatches'
  BY <1>3, Zenon DEF Actors, Over, SInv, ObjectMatches, Assembled
<1> QED
  BY <1>2, <1>3, <1>4, Quiet, Zenon

(* What is known of a writer.                                              *)
LEMMA Writer ==
  ASSUME SInv, NEW r \in Reqs, at[r].pc = "write"
  PROVE  /\ at[r] \in Writing /\ at[r].p \in PartNumbers /\ r \in Actors /\ ~Over
         /\ at[r].ino \in DOMAIN data /\ at[r].ino # None
         /\ \A o \in PartNumbers : file[o] = at[r].ino => o = at[r].p
         /\ Alone(r) /\ Writes(r, at[r].p)
<1>1. r \in Actors
  BY Zenon DEF Actors
<1>2. at[r] \in Writing
  BY <1>1, Zenon DEF SInv, Locals
<1>3. at[r].p \in PartNumbers /\ at[r].ino # None
  BY <1>2, NoneAssumption, Zenon DEF Writing
<1> QED
  BY <1>1, <1>2, <1>3, Zenon DEF SInv, Own, Over, Writes

(* A writer stops.  What is left of the others.                            *)
LEMMA WriterStops ==
  ASSUME SInv, NEW r \in Reqs, at[r].pc = "write", at' = [at EXCEPT ![r] = Idle]
  PROVE  /\ at'[r].pc = "idle"
         /\ \A q \in Reqs : at'[q].pc = "write" => at[q].pc = "write" /\ at'[q] = at[q] /\ q # r
         /\ \A q \in Reqs : at'[q].pc = "write" /\ at[q].p \notin twice => at[q].p # at[r].p
         /\ \A q \in Reqs, o \in PartNumbers : Writes(q, o)' => Writes(q, o)
         /\ \A q \in Reqs, o \in PartNumbers : Writes(q, o) /\ o # at[r].p => Writes(q, o)' /\ at'[q] = at[q]
         /\ at[r].p \notin twice => \A q \in Reqs : ~(at'[q].pc = "write" /\ at'[q].p = at[r].p)
<1>1. Idle.pc = "idle" /\ Locals /\ r \in Actors
  BY Writer, Zenon DEF Idle, SInv
<1>2. /\ at'[r] = Idle /\ \A q \in Reqs : q # r => at'[q] = at[q]
  BY <1>1, OneMoves, Zenon
<1>3. \A q \in Reqs : at'[q].pc = "write" => at[q].pc = "write" /\ at'[q] = at[q] /\ q # r
  BY <1>1, <1>2, Zenon
<1>4. ASSUME NEW q \in Reqs, at[q].pc = "write", q # r, at[q].p \notin twice PROVE at[q].p # at[r].p
  BY <1>4, Writer, Zenon DEF Alone
<1>5. ASSUME NEW q \in Reqs, at[r].p \notin twice, at'[q].pc = "write", at'[q].p = at[r].p PROVE FALSE
  BY <1>3, <1>4, <1>5, Zenon
<1> QED
  BY <1>1, <1>2, <1>3, <1>4, <1>5, Zenon DEF Writes

(* Writing or closing the file fails.                                      *)
LEMMA FailPartStep ==
  ASSUME SInv, NEW r \in Reqs, FailPart(r)
  PROVE  SInv'
<1>0. Types /\ Own /\ Kept /\ Locals
  BY Zenon DEF SInv
<1>1. /\ at[r].pc = "write" /\ file' = [file EXCEPT ![at[r].p] = None]
      /\ at' = [at EXCEPT ![r] = Idle] /\ Idle.pc = "idle"
      /\ UNCHANGED <<entry, data, parts, answered, object, touched, twice, resent>>
  BY Zenon DEF FailPart, Goto, Idle, history
<1>2. r \in Actors /\ ~Over /\ Alone(r) /\ at[r].p \in PartNumbers
  BY <1>1, Writer, Zenon
<1> PICK p \in PartNumbers : p = at[r].p
  BY <1>2, Zenon
<1>3. /\ file' \in [PartNumbers -> {None} \cup DOMAIN data]
      /\ file'[p] = None /\ \A o \in PartNumbers : o # p => file'[o] = file[o]
      /\ \A o \in PartNumbers : file'[o] \in {file[o], None}
  BY <1>0, <1>1, Zenon DEF Types
<1>4. /\ \A q \in Reqs : at'[q].pc = "write" => at[q].pc = "write" /\ at'[q] = at[q] /\ q # r
      /\ \A q \in Reqs : at'[q].pc = "write" /\ at[q].p \notin twice => at[q].p # p
      /\ \A q \in Reqs, o \in PartNumbers : Writes(q, o)' => Writes(q, o)
      /\ \A q \in Reqs, o \in PartNumbers : Writes(q, o) /\ o # p => Writes(q, o)' /\ at'[q] = at[q]
      /\ p \notin twice => \A q \in Reqs : ~(at'[q].pc = "write" /\ at'[q].p = p)
  BY <1>1, WriterStops, Zenon
<1>5. Own'
  <2>1. \A o, q \in PartNumbers : file'[o] = file'[q] /\ file'[o] # None => o = q
    BY <1>0, <1>3 DEF Own
  <2>2. ASSUME NEW q \in Reqs, at'[q].pc = "write"
        PROVE  /\ at'[q].ino \in DOMAIN data'
               /\ \A o \in PartNumbers : file'[o] = at'[q].ino => o = at'[q].p
               /\ \A s \in Reqs : at'[s].pc = "write" /\ at'[s].ino = at'[q].ino => at'[s].p = at'[q].p
               /\ Alone(q)'
    <3>1. at[q].pc = "write" /\ at'[q] = at[q] /\ q # r
      BY <1>4, <2>2, Zenon
    <3>2. /\ at[q].p \in PartNumbers /\ at[q].ino # None /\ at[q].ino \in DOMAIN data
          /\ \A o \in PartNumbers : file[o] = at[q].ino => o = at[q].p
          /\ Alone(q)
      BY <3>1, Writer, Zenon
    <3>3. ASSUME NEW s \in Reqs, at'[s].pc = "write", at'[s].ino = at'[q].ino PROVE at'[s].p = at'[q].p
      <4>1. at[s].pc = "write" /\ at'[s] = at[s]
        BY <1>4, <3>3, Zenon
      <4> QED
        BY <1>0, <3>1, <3>3, <4>1, Zenon DEF Own
    <3>4. \A o \in PartNumbers : file'[o] = at'[q].ino => o = at'[q].p
      BY <1>3, <3>1, <3>2
    <3>5. Alone(q)'
      <4> SUFFICES ASSUME at[q].p \notin twice
                   PROVE  /\ data[at[q].ino] = Prefix(at[q].body, at[q].n) /\ at[q].p \in touched
                          /\ file'[at[q].p] \in {None, at[q].ino}
                          /\ \A s \in Reqs : at'[s].pc = "write" /\ at'[s].p = at[q].p => s = q
        BY <1>1, <3>1 DEF Alone, Writes
      <4>1. at[q].p # p /\ file'[at[q].p] = file[at[q].p]
        BY <1>3, <1>4, <2>2, <3>2, Zenon
      <4>2. \A s \in Reqs : at'[s].pc = "write" /\ at'[s].p = at[q].p => Writes(s, at[q].p)
        BY <1>4, Zenon DEF Writes
      <4> QED
        BY <3>2, <4>1, <4>2, Zenon DEF Alone
    <3> QED
      BY <1>1, <3>1, <3>2, <3>3, <3>4, <3>5, Zenon
  <2> QED
    BY <2>1, <2>2, Zenon DEF Own
<1>6. Kept'
  <2> SUFFICES ASSUME NEW o \in PartNumbers, o \notin twice PROVE Recorded(o)'
    BY <1>1, Zenon DEF Kept
  <2>1. CASE o = p
    BY <1>1, <1>2, <1>3, <1>4, <2>1, Zenon DEF Recorded, Alone, Writes
  <2>2. CASE o # p
    <3>1. Recorded(o) /\ file'[o] = file[o]
      BY <1>0, <1>3, <2>2, Zenon DEF Kept
    <3>2. \A q \in Reqs : (Writes(q, o)' <=> Writes(q, o)) /\ (Writes(q, o) => at'[q] = at[q])
      BY <1>4, <2>2, Zenon
    <3> QED
      BY <1>1, <1>2, <3>1, <3>2, Zenon DEF Recorded
  <2> QED
    BY <2>1, <2>2, Zenon
<1>7. \A o \in PartNumbers : Spares(o)
  <2>1. \A q \in Reqs : at'[q].pc = "write" => at[q].pc = "write" /\ at'[q] = at[q]
    BY <1>4, Zenon
  <2>2. data' = data /\ twice' = twice /\ resent \subseteq resent'
    BY <1>1, Zenon
  <2> QED
    BY <1>0, <1>3, <2>1, <2>2, SparesAll, Zenon
<1>8. Types' /\ ObjectMatches' /\ Fits(Idle)' /\ DOMAIN data \subseteq DOMAIN data'
  <2>1. Types'
    BY <1>0, <1>1, <1>3, Zenon DEF Types
  <2>2. ObjectMatches'
    BY <1>1, SameObject, Zenon DEF SInv
  <2> QED
    BY <1>1, <2>1, <2>2, Zenon DEF Fits
<1>9. \A q \in Reqs : q # r /\ at[q].pc \in {"open", "stream"} =>
         \A o \in Listed(at[q].list) : Spares(o)
  BY <1>7, ListsParts, Zenon
<1>10. Idle.pc \in Rest \cup {"create", "write", "validate", "open", "stream"}
       /\ Idle.pc # "create" /\ Idle.pc # "write"
  BY <1>1, Zenon DEF Rest
<1> QED
  BY <1>1, <1>2, <1>5, <1>6, <1>8, <1>9, <1>10, Moves, Zenon

(* The part is recorded.                                                   *)
LEMMA RecordPartStep ==
  ASSUME SInv, NEW r \in Reqs, RecordPart(r)
  PROVE  SInv'
<1>0. Types /\ Own /\ Kept /\ Locals
  BY Zenon DEF SInv
<1>1. /\ at[r].pc = "write" /\ at[r].n = BodyLen
      /\ at' = [at EXCEPT ![r] = Idle] /\ Idle.pc = "idle"
      /\ UNCHANGED <<entry, file, data, object, twice, resent>>
  BY Zenon DEF RecordPart, Whole, Goto, Idle
<1>2. /\ r \in Actors /\ ~Over /\ Alone(r) /\ at[r] \in Writing
      /\ at[r].p \in PartNumbers /\ at[r].ino # None /\ Writes(r, at[r].p)
  BY <1>1, Writer, Zenon
<1> PICK p \in PartNumbers : p = at[r].p
  BY <1>2, Zenon
<1> PICK b \in Bodies : b = at[r].body
  BY <1>2, Zenon DEF Writing
<1>3. /\ parts' = [parts EXCEPT ![p] = Body(b)] /\ touched' = touched \ {p}
      /\ answered' = answered \cup {<<p, Body(b)>>}
  BY <1>1, Bodies1, Zenon DEF RecordPart
<1>4. Body(b) \in Etags /\ Body(b) = Prefix(b, BodyLen) /\ Body(b) # None
  BY Bodies1, NoneAssumption, Zenon
<1>5. /\ parts' \in [PartNumbers -> {None} \cup Etags]
      /\ parts'[p] = Body(b) /\ \A o \in PartNumbers : o # p => parts'[o] = parts[o]
      /\ touched' \subseteq PartNumbers /\ answered' \subseteq PartNumbers \X Etags
  BY <1>0, <1>3, <1>4 DEF Types
<1>6. /\ \A q \in Reqs : at'[q].pc = "write" => at[q].pc = "write" /\ at'[q] = at[q] /\ q # r
      /\ \A q \in Reqs : at'[q].pc = "write" /\ at[q].p \notin twice => at[q].p # p
      /\ \A q \in Reqs, o \in PartNumbers : Writes(q, o)' => Writes(q, o)
      /\ \A q \in Reqs, o \in PartNumbers : Writes(q, o) /\ o # p => Writes(q, o)' /\ at'[q] = at[q]
      /\ p \notin twice => \A q \in Reqs : ~(at'[q].pc = "write" /\ at'[q].p = p)
  BY <1>1, WriterStops, Zenon
<1>7. Own'
  <2>1. \A o, q \in PartNumbers : file'[o] = file'[q] /\ file'[o] # None => o = q
    BY <1>0, <1>1 DEF Own
  <2>2. ASSUME NEW q \in Reqs, at'[q].pc = "write"
        PROVE  /\ at'[q].ino \in DOMAIN data'
               /\ \A o \in PartNumbers : file'[o] = at'[q].ino => o = at'[q].p
               /\ \A s \in Reqs : at'[s].pc = "write" /\ at'[s].ino = at'[q].ino => at'[s].p = at'[q].p
               /\ Alone(q)'
    <3>1. at[q].pc = "write" /\ at'[q] = at[q] /\ q # r
      BY <1>6, <2>2, Zenon
    <3>2. /\ at[q].p \in PartNumbers /\ at[q].ino \in DOMAIN data
          /\ \A o \in PartNumbers : file[o] = at[q].ino => o = at[q].p
          /\ Alone(q)
      BY <3>1, Writer, Zenon
    <3>3. ASSUME NEW s \in Reqs, at'[s].pc = "write", at'[s].ino = at'[q].ino PROVE at'[s].p = at'[q].p
      <4>1. at[s].pc = "write" /\ at'[s] = at[s]
        BY <1>6, <3>3, Zenon
      <4> QED
        BY <1>0, <3>1, <3>3, <4>1, Zenon DEF Own
    <3>4. Alone(q)'
      <4> SUFFICES ASSUME at[q].p \notin twice
                   PROVE  /\ data[at[q].ino] = Prefix(at[q].body, at[q].n) /\ at[q].p \in touched'
                          /\ file[at[q].p] \in {None, at[q].ino}
                          /\ \A s \in Reqs : at'[s].pc = "write" /\ at'[s].p = at[q].p => s = q
        BY <1>1, <3>1 DEF Alone, Writes
      <4>1. at[q].p # p
        BY <1>6, <2>2, Zenon
      <4>2. \A s \in Reqs : at'[s].pc = "write" /\ at'[s].p = at[q].p => Writes(s, at[q].p)
        BY <1>6, Zenon DEF Writes
      <4> QED
        BY <1>3, <3>2, <4>1, <4>2, Zenon DEF Alone
    <3> QED
      BY <1>1, <3>1, <3>2, <3>3, <3>4, Zenon
  <2> QED
    BY <2>1, <2>2, Zenon DEF Own
<1>8. Kept'
  <2> SUFFICES ASSUME NEW o \in PartNumbers, o \notin twice PROVE Recorded(o)'
    BY <1>1, Zenon DEF Kept
  <2>0. Recorded(o)
    BY <1>0, Zenon DEF Kept
  <2>1. CASE o = p
    <3>1. p \notin touched' /\ \A q \in Reqs : ~Writes(q, p)'
      BY <1>3, <1>6, <2>1, Zenon DEF Writes
    <3>2. data[at[r].ino] = Body(b) /\ file[p] \in {None, at[r].ino}
      BY <1>1, <1>2, <1>4, <2>1, Zenon DEF Alone
    <3>3. entry # "removed" => file[p] = at[r].ino
      BY <1>2, <2>0, <2>1, Zenon DEF Recorded
    <3> QED
      BY <1>1, <1>2, <1>5, <2>1, <3>1, <3>2, <3>3 DEF Recorded
  <2>2. CASE o # p
    <3>1. parts'[o] = parts[o] /\ (o \in touched' <=> o \in touched)
      BY <1>3, <1>5, <2>2, Zenon
    <3>2. \A q \in Reqs : (Writes(q, o)' <=> Writes(q, o)) /\ (Writes(q, o) => at'[q] = at[q])
      BY <1>6, <2>2, Zenon
    <3> QED
      BY <1>1, <1>2, <2>0, <3>1, <3>2, Zenon DEF Recorded
  <2> QED
    BY <2>1, <2>2, Zenon
<1>9. \A o \in PartNumbers : Spares(o)
  <2>1. \A q \in Reqs : at'[q].pc = "write" => at[q].pc = "write" /\ at'[q] = at[q]
    BY <1>6, Zenon
  <2>2. /\ data' = data /\ twice' = twice /\ resent \subseteq resent'
        /\ \A o \in PartNumbers : file'[o] \in {file[o], None}
    BY <1>1, Zenon
  <2> QED
    BY <1>0, <2>1, <2>2, SparesAll, Zenon
<1>10. Types' /\ ObjectMatches' /\ Fits(Idle)' /\ DOMAIN data \subseteq DOMAIN data'
  <2>1. Types'
    BY <1>0, <1>1, <1>5, Zenon DEF Types
  <2>2. ObjectMatches'
    BY <1>1, SameObject, Zenon DEF SInv
  <2> QED
    BY <1>1, <2>1, <2>2, Zenon DEF Fits
<1>11. \A q \in Reqs : q # r /\ at[q].pc \in {"open", "stream"} =>
          \A o \in Listed(at[q].list) : Spares(o)
  BY <1>9, ListsParts, Zenon
<1>12. Idle.pc \in Rest \cup {"create", "write", "validate", "open", "stream"}
       /\ Idle.pc # "create" /\ Idle.pc # "write"
  BY <1>1, Zenon DEF Rest
<1> QED
  BY <1>1, <1>2, <1>7, <1>8, <1>10, <1>11, <1>12, Moves, Zenon

(* A cell is written.                                                      *)
LEMMA WriteCellStep ==
  ASSUME SInv, NEW r \in Reqs, WriteCell(r)
  PROVE  SInv'
<1>0. Types /\ Own /\ Kept /\ Locals
  BY Zenon DEF SInv
<1>1. /\ at[r].pc = "write" /\ at[r].n < BodyLen
      /\ UNCHANGED <<entry, file, parts, answered, touched, twice, resent, object>>
  BY Zenon DEF WriteCell, history
<1>2. /\ r \in Actors /\ ~Over /\ Alone(r) /\ at[r] \in Writing
      /\ at[r].ino \in DOMAIN data /\ Writes(r, at[r].p)
      /\ \A o \in PartNumbers : file[o] = at[r].ino => o = at[r].p
  BY <1>1, Writer, Zenon
<1>3. PICK n \in 0 .. BodyLen, b \in Bodies, p \in PartNumbers, k \in Nat :
        n = at[r].n /\ b = at[r].body /\ p = at[r].p /\ k = at[r].ino
  BY <1>2, Zenon DEF Writing
<1> PICK local : local = [at[r] EXCEPT !.n = n + 1]
  BY Zenon
<1>4. /\ local \in Writing /\ local.pc = "write" /\ local.p = p /\ local.ino = k
      /\ local.body = b /\ local.n = n + 1
  BY <1>1, <1>2, <1>3, S3Assumption DEF Writing
<1>5. k \in DOMAIN data /\ data[k] \in Contents
  BY <1>0, <1>2, <1>3 DEF Types
<1> PICK c : c = WrittenAt(data[k], n + 1, Body(b)[n + 1])
  BY Zenon
<1>6. at' = [at EXCEPT ![r] = local] /\ data' = [data EXCEPT ![k] = c]
  BY <1>3, <1>5, Zenon DEF WriteCell, Goto
<1>7. c \in Contents /\ (data[k] = Prefix(b, n) => c = Prefix(b, n + 1))
  BY <1>1, <1>3, <1>5, PrefixGrows, WrittenTyped, Zenon
<1>8. /\ data' \in Seq(Contents) /\ DOMAIN data' = DOMAIN data /\ data'[k] = c
      /\ \A m \in DOMAIN data : m # k => data'[m] = data[m]
  <2> PICK S : S = Contents
    BY Zenon
  <2>1. data \in Seq(S) /\ c \in S
    BY <1>0, <1>7, Zenon DEF Types
  <2>2. data' \in Seq(S) /\ DOMAIN data' = DOMAIN data /\ data'[k] = c
        /\ \A m \in DOMAIN data : m # k => data'[m] = data[m]
    BY <1>5, <1>6, <2>1
  <2> QED
    BY <2>2, Zenon
<1>9. at'[r] = local /\ \A q \in Reqs : q # r => at'[q] = at[q]
  BY <1>0, <1>2, <1>6, OneMoves, Zenon
<1>10. \A q \in Reqs :
          /\ at'[q].pc = "write" <=> at[q].pc = "write"
          /\ at'[q].pc = "write" => at'[q].p = at[q].p /\ at'[q].ino = at[q].ino
  BY <1>1, <1>3, <1>4, <1>9, Zenon
<1>11. \A q \in Reqs, o \in PartNumbers : Writes(q, o)' <=> Writes(q, o)
  BY <1>10, Zenon DEF Writes
<1>12. Own'
  <2>1. \A o, q \in PartNumbers : file'[o] = file'[q] /\ file'[o] # None => o = q
    BY <1>0, <1>1 DEF Own
  <2>2. ASSUME NEW q \in Reqs, at'[q].pc = "write"
        PROVE  /\ at'[q].ino \in DOMAIN data'
               /\ \A o \in PartNumbers : file'[o] = at'[q].ino => o = at'[q].p
               /\ \A s \in Reqs : at'[s].pc = "write" /\ at'[s].ino = at'[q].ino => at'[s].p = at'[q].p
               /\ Alone(q)'
    <3>1. at[q].pc = "write" /\ at'[q].p = at[q].p /\ at'[q].ino = at[q].ino
      BY <1>10, <2>2, Zenon
    <3>2. /\ at[q].p \in PartNumbers /\ at[q].ino \in DOMAIN data
          /\ \A o \in PartNumbers : file[o] = at[q].ino => o = at[q].p
          /\ Alone(q)
      BY <3>1, Writer, Zenon
    <3>3. \A s \in Reqs : at'[s].pc = "write" /\ at'[s].ino = at'[q].ino => at'[s].p = at'[q].p
      BY <1>0, <1>10, <3>1 DEF Own
    <3>4. ASSUME at[q].p \notin twice
          PROVE  /\ data'[at[q].ino] = Prefix(at'[q].body, at'[q].n) /\ at[q].p \in touched
                 /\ file[at[q].p] \in {None, at[q].ino}
                 /\ \A s \in Reqs : at'[s].pc = "write" /\ at'[s].p = at[q].p => s = q
      <4>1. /\ data[at[q].ino] = Prefix(at[q].body, at[q].n) /\ at[q].p \in touched
            /\ file[at[q].p] \in {None, at[q].ino}
            /\ \A s \in Reqs : Writes(s, at[q].p) => s = q
        BY <3>2, <3>4, Zenon DEF Alone
      <4>2. \A s \in Reqs : at'[s].pc = "write" /\ at'[s].p = at[q].p => s = q
        BY <1>10, <4>1 DEF Writes
      <4>3. CASE q = r
        BY <1>3, <1>4, <1>7, <1>8, <1>9, <4>1, <4>2, <4>3, Zenon
      <4>4. CASE q # r
        <5>1. at[q].ino # k
          <6> SUFFICES ASSUME at[q].ino = k PROVE FALSE
            BY Zenon
          <6>1. at[q].p = p
            BY <1>0, <1>1, <1>3, <3>1, Zenon DEF Own
          <6> QED
            BY <1>2, <1>3, <4>1, <4>4, <6>1, Zenon
        <5>2. data'[at[q].ino] = data[at[q].ino] /\ at'[q] = at[q]
          BY <1>8, <1>9, <3>2, <4>4, <5>1, Zenon
        <5> QED
          BY <4>1, <4>2, <5>2, Zenon
      <4> QED
        BY <4>3, <4>4, Zenon
    <3>5. Alone(q)'
      BY <1>1, <3>1, <3>4 DEF Alone, Writes
    <3> QED
      BY <1>1, <1>8, <3>1, <3>2, <3>3, <3>5, Zenon
  <2> QED
    BY <2>1, <2>2, Zenon DEF Own
<1>13. Kept'
  <2> SUFFICES ASSUME NEW o \in PartNumbers, o \notin twice PROVE Recorded(o)'
    BY <1>1, Zenon DEF Kept
  <2>0. Recorded(o)
    BY <1>0, Zenon DEF Kept
  <2>1. o \notin touched /\ file[o] # None => data'[file[o]] = data[file[o]]
    <3> SUFFICES ASSUME o \notin touched, file[o] # None PROVE data'[file[o]] = data[file[o]]
      BY Zenon
    <3>1. file[o] \in DOMAIN data
      BY <1>0, Zenon DEF Types
    <3>2. file[o] # k
      BY <1>2, <1>3, Zenon DEF Alone
    <3> QED
      BY <1>8, <3>1, <3>2, Zenon
  <2>2. \A q \in Reqs : (Writes(q, o)' <=> Writes(q, o)) /\ (Writes(q, o) => at'[q].ino = at[q].ino)
    BY <1>10, <1>11, Zenon DEF Writes
  <2> QED
    BY <1>1, <1>2, <2>0, <2>1, <2>2 DEF Recorded
<1>14. ASSUME NEW o \in PartNumbers PROVE Spares(o)
  <2>1. Shared' = Shared
    BY <1>1, Zenon DEF Shared
  <2>2. ASSUME NEW m \in DOMAIN data, NEW e \in Etags, Holds(m, o, e) PROVE Holds(m, o, e)'
    <3>1. o \notin Shared => data'[m] = e /\ \A s \in Reqs : at'[s].pc = "write" => at'[s].ino # m
      BY <1>1, <1>3, <1>8, <1>10, <2>2 DEF Holds
    <3> QED
      BY <1>1, <2>1, <2>2, <3>1, Zenon DEF Holds
  <2>3. ASSUME NEW e \in Etags, Ready(o, e) PROVE Ready(o, e)'
    <3>1. o \notin Shared /\ file[o] # None => data'[file[o]] = e
      <4> SUFFICES ASSUME o \notin Shared, file[o] # None PROVE data'[file[o]] = e
        BY Zenon
      <4>1. file[o] \in DOMAIN data /\ data[file[o]] = e
        BY <1>0, <2>3, Zenon DEF Types, Ready
      <4>2. file[o] # k
        BY <1>2, <1>3, <2>3, Zenon DEF Ready
      <4> QED
        BY <1>8, <4>1, <4>2, Zenon
    <3> QED
      BY <1>1, <1>11, <2>1, <2>3, <3>1, Zenon DEF Ready
  <2> QED
    BY <2>1, <2>2, <2>3, Zenon DEF Spares
<1>15. Types' /\ ObjectMatches' /\ Fits(local)' /\ DOMAIN data \subseteq DOMAIN data'
  <2>1. Types'
    BY <1>0, <1>1, <1>8, Zenon DEF Types
  <2>2. ObjectMatches'
    BY <1>1, SameObject, Zenon DEF SInv
  <2> QED
    BY <1>4, <1>8, <2>1, <2>2, Zenon DEF Fits
<1>16. \A q \in Reqs : q # r /\ at[q].pc \in {"open", "stream"} =>
          \A o \in Listed(at[q].list) : Spares(o)
  BY <1>14, ListsParts, Zenon
<1>17. local.pc \in Rest \cup {"create", "write", "validate", "open", "stream"} /\ local.pc # "create"
  BY <1>4, Zenon
<1> QED
  BY <1>2, <1>4, <1>6, <1>12, <1>13, <1>15, <1>16, <1>17, Moves, Zenon

(* Marking a part says nothing of the others.                              *)
LEMMA Marks ==
  ASSUME NEW set, NEW p, NEW shared \in BOOLEAN
  PROVE  /\ p \in Mark(set, p, shared) <=> shared
         /\ \A o : o # p => (o \in Mark(set, p, shared) <=> o \in set)
BY Zenon DEF Mark

(* The file of a part is created or truncated.                             *)
LEMMA CreateFileStep ==
  ASSUME SInv, NEW r \in Reqs, CreateFile(r)
  PROVE  SInv'
<1>0. Types /\ Own /\ Kept /\ Locals /\ Reads /\ ObjectMatches /\ r \in Actors
  BY Zenon DEF SInv, Actors
<1>1. /\ at[r].pc = "create" /\ ~Over
      /\ UNCHANGED <<entry, parts, answered, object>>
  BY <1>0, Zenon DEF CreateFile, Over
<1>2. ObjectMatches'
  BY <1>0, <1>1, SameObject, Zenon
<1>3. CASE ~dir
  <2>1. at' = [at EXCEPT ![r] = Idle] /\ UNCHANGED <<file, data, touched, twice, resent>>
    BY <1>3, Zenon DEF CreateFile, Goto, history
  <2>2. Idle.pc = "idle" /\ Fits(Idle) /\ entry \in {"new", "live", "removed"}
    BY <1>0, Zenon DEF Idle, Fits, Types
  <2>3. Idle.pc \in Rest \cup {"create", "validate", "open", "stream"}
    BY <2>2, Zenon DEF Rest
  <2> QED
    BY <1>0, <1>1, <1>2, <2>1, <2>2, <2>3, Quiet, Zenon
<1>4. CASE dir
  <2>1. at[r] \in Creating
    BY <1>0, <1>1, Zenon DEF Locals
  <2>2. PICK p \in PartNumbers, b \in Bodies : p = at[r].p /\ b = at[r].body
    BY <2>1, Zenon DEF Creating
  <2>3. file[p] \in {None} \cup DOMAIN data
    BY <1>0, Zenon DEF Types
  <2> PICK S : S = Contents
    BY Zenon
  <2>4. data \in Seq(S) /\ << >> \in S
    BY <1>0 DEF Types, Contents
  <2>5. PICK k \in Nat :
          /\ k = IF file[p] = None THEN Len(data) + 1 ELSE file[p]
          /\ file[p] = None => k \notin DOMAIN data
          /\ file[p] # None => k = file[p]
    BY <2>3, <2>4
  <2> PICK local : local = [pc |-> "write", p |-> p, body |-> b, n |-> 0, ino |-> k]
    BY Zenon
  <2>6. /\ local \in Writing /\ local.pc = "write" /\ local.p = p /\ local.ino = k
        /\ local.body = b /\ local.n = 0
    BY S3Assumption DEF Writing
  <2>7. /\ file' = [file EXCEPT ![p] = k] /\ touched' = touched \cup {p}
        /\ data' = IF file[p] = None THEN Append(data, << >>) ELSE [data EXCEPT ![k] = << >>]
        /\ at' = [at EXCEPT ![r] = local]
        /\ twice' = Mark(twice, p, \E s \in Reqs : Writes(s, p))
        /\ resent' = Mark(resent, p, \E s \in Reqs : Completes(s, p))
    BY <1>4, <2>2, <2>5, Zenon DEF CreateFile, Goto
  <2>8. /\ at'[r] = local /\ \A q \in Reqs : q # r => at'[q] = at[q]
    BY <1>0, <2>7, OneMoves, Zenon
  <2>9. /\ p \in twice' <=> \E s \in Reqs : Writes(s, p)
        /\ p \in resent' <=> \E s \in Reqs : Completes(s, p)
        /\ \A o : o # p => (o \in twice' <=> o \in twice) /\ (o \in resent' <=> o \in resent)
    BY <2>7, Marks, Zenon
  <2>10. /\ data' \in Seq(S) /\ k \in DOMAIN data' /\ data'[k] = << >>
         /\ \A m \in DOMAIN data : m \in DOMAIN data' /\ (m # k => data'[m] = data[m])
    <3>1. CASE file[p] = None
      BY <2>4, <2>5, <2>7, <3>1
    <3>2. CASE file[p] # None
      BY <2>3, <2>4, <2>5, <2>7, <3>2
    <3> QED
      BY <3>1, <3>2, Zenon
  <2>11. /\ file' \in [PartNumbers -> {None} \cup DOMAIN data'] /\ file'[p] = k
         /\ \A o \in PartNumbers : o # p => file'[o] = file[o]
    <3>1. file \in [PartNumbers -> {None} \cup DOMAIN data]
      BY <1>0, Zenon DEF Types
    <3> QED
      BY <2>7, <2>10, <3>1, Zenon
  <2>12. k # None /\ \A o \in PartNumbers : o # p => file[o] # k
    <3>1. \A o \in PartNumbers : file[o] \in {None} \cup DOMAIN data
      BY <1>0, Zenon DEF Types
    <3>2. k # None
      BY NoneAssumption, Zenon
    <3> QED
      BY <1>0, <2>5, <3>1, <3>2 DEF Own
  <2>13. ASSUME NEW m \in DOMAIN data, NEW o, \A u \in PartNumbers : file[u] = m => u = o, o # p
         PROVE  m # k /\ data'[m] = data[m]
    <3>1. m # k
      BY <2>5, <2>13, Zenon
    <3> QED
      BY <2>10, <3>1, Zenon
  <2>14. ASSUME NEW q \in Reqs, at'[q].pc = "write", q # r
         PROVE  /\ at'[q] = at[q] /\ at[q].pc = "write" /\ at[q].p \in PartNumbers
                /\ at[q].ino \in DOMAIN data /\ Alone(q)
                /\ \A o \in PartNumbers : file[o] = at[q].ino => o = at[q].p
                /\ at[q].p # p => at[q].ino # k /\ data'[at[q].ino] = data[at[q].ino]
                /\ at[q].p = p => p \in twice'
    <3>1. at'[q] = at[q] /\ at[q].pc = "write"
      BY <2>8, <2>14, Zenon
    <3>2. /\ at[q].p \in PartNumbers /\ at[q].ino \in DOMAIN data /\ Alone(q)
          /\ \A o \in PartNumbers : file[o] = at[q].ino => o = at[q].p
          /\ Writes(q, at[q].p)
      BY <3>1, Writer, Zenon
    <3>3. at[q].p # p => at[q].ino # k /\ data'[at[q].ino] = data[at[q].ino]
      BY <2>13, <3>2, Zenon
    <3> QED
      BY <2>9, <3>1, <3>2, <3>3, Zenon
  <2>15. Own'
    <3>1. \A o, u \in PartNumbers : file'[o] = file'[u] /\ file'[o] # None => o = u
      BY <1>0, <2>11, <2>12 DEF Own
    <3>2. ASSUME NEW q \in Reqs, at'[q].pc = "write"
          PROVE  /\ at'[q].ino \in DOMAIN data'
                 /\ \A o \in PartNumbers : file'[o] = at'[q].ino => o = at'[q].p
                 /\ \A s \in Reqs : at'[s].pc = "write" /\ at'[s].ino = at'[q].ino => at'[s].p = at'[q].p
                 /\ Alone(q)'
      <4>1. CASE q = r
        <5>1. Prefix(b, 0) = << >>
          BY Bodies1, Zenon
        <5>2. \A s \in Reqs : at'[s].pc = "write" /\ at'[s].ino = k => at'[s].p = p
          BY <2>6, <2>8, <2>14, Zenon
        <5>3. \A o \in PartNumbers : file'[o] = k => o = p
          BY <2>11, <2>12, Zenon
        <5>4. p \notin twice' => \A s \in Reqs : at'[s].pc = "write" /\ at'[s].p = p => s = r
          BY <2>14, Zenon
        <5>5. Alone(r)'
          <6>1. /\ at'[r].p = p /\ at'[r].ino = k /\ at'[r].body = b /\ at'[r].n = 0
                /\ data'[k] = Prefix(b, 0) /\ p \in touched' /\ file'[p] = k
            BY <2>6, <2>7, <2>8, <2>10, <2>11, <5>1, Zenon
          <6>2. p \notin twice' => \A s \in Reqs : Writes(s, at[r].p)' => s = r
            BY <5>4, <6>1, Zenon DEF Writes
          <6> QED
            BY <6>1, <6>2, Zenon DEF Alone
        <5> QED
          BY <2>6, <2>8, <2>10, <4>1, <5>2, <5>3, <5>5, Zenon
      <4>2. CASE q # r
        <5>1. /\ at'[q] = at[q] /\ at[q].pc = "write" /\ at[q].p \in PartNumbers
              /\ at[q].ino \in DOMAIN data /\ Alone(q)
              /\ \A o \in PartNumbers : file[o] = at[q].ino => o = at[q].p
              /\ at[q].p # p => at[q].ino # k /\ data'[at[q].ino] = data[at[q].ino]
              /\ at[q].p = p => p \in twice'
          BY <2>14, <3>2, <4>2, Zenon
        <5>2. \A o \in PartNumbers : file'[o] = at[q].ino => o = at[q].p
          BY <2>11, <5>1, Zenon
        <5>3. ASSUME NEW s \in Reqs, at'[s].pc = "write", at'[s].ino = at[q].ino PROVE at'[s].p = at[q].p
          <6>1. CASE s = r
            BY <2>6, <2>8, <5>1, <5>3, <6>1, Zenon
          <6>2. CASE s # r
            <7>1. at'[s] = at[s] /\ at[s].pc = "write"
              BY <2>14, <5>3, <6>2, Zenon
            <7> QED
              BY <1>0, <5>1, <5>3, <7>1, Zenon DEF Own
          <6> QED
            BY <6>1, <6>2, Zenon
        <5>4. ASSUME at[q].p \notin twice'
              PROVE  /\ data'[at[q].ino] = Prefix(at[q].body, at[q].n) /\ at[q].p \in touched'
                     /\ file'[at[q].p] \in {None, at[q].ino}
                     /\ \A s \in Reqs : at'[s].pc = "write" /\ at'[s].p = at[q].p => s = q
          <6>1. at[q].p # p /\ at[q].p \notin twice
            BY <2>9, <5>1, <5>4, Zenon
          <6>2. /\ data[at[q].ino] = Prefix(at[q].body, at[q].n) /\ at[q].p \in touched
                /\ file[at[q].p] \in {None, at[q].ino}
                /\ \A s \in Reqs : Writes(s, at[q].p) => s = q
            BY <5>1, <6>1, Zenon DEF Alone
          <6>3. ASSUME NEW s \in Reqs, at'[s].pc = "write", at'[s].p = at[q].p PROVE s = q
            <7>1. s # r
              BY <2>6, <2>8, <6>1, <6>3, Zenon
            <7>2. Writes(s, at[q].p)
              BY <2>14, <6>3, <7>1, Zenon DEF Writes
            <7> QED
              BY <6>2, <7>2, Zenon
          <6> QED
            BY <2>7, <2>11, <5>1, <6>1, <6>2, <6>3, Zenon
        <5>5. Alone(q)'
          BY <5>1, <5>4 DEF Alone, Writes
        <5> QED
          BY <2>10, <5>1, <5>2, <5>3, <5>5, Zenon
      <4> QED
        BY <4>1, <4>2, Zenon
    <3> QED
      BY <3>1, <3>2, Zenon DEF Own
  <2>16. Kept'
    <3> SUFFICES ASSUME NEW o \in PartNumbers, o \notin twice' PROVE Recorded(o)'
      BY Zenon DEF Kept
    <3>1. CASE o = p
      <4>1. Writes(r, p)' /\ o \in touched' /\ at'[r].ino = k
        BY <2>6, <2>7, <2>8, <3>1, Zenon DEF Writes
      <4>2. \A s \in Reqs : Writes(s, p)' => s = r
        BY <2>14, <3>1, Zenon DEF Writes
      <4> QED
        BY <2>11, <3>1, <4>1, <4>2, Zenon DEF Recorded
    <3>2. CASE o # p
      <4>1. /\ Recorded(o) /\ file'[o] = file[o] /\ file[o] # k /\ parts'[o] = parts[o]
            /\ o \in touched' <=> o \in touched
        BY <1>0, <1>1, <2>7, <2>9, <2>11, <2>12, <3>2, Zenon DEF Kept
      <4>2. file[o] # None => data'[file[o]] = data[file[o]]
        BY <1>0, <2>10, <4>1, Zenon DEF Types
      <4>3. \A q \in Reqs : (Writes(q, o)' <=> Writes(q, o)) /\ (Writes(q, o) => at'[q] = at[q])
        BY <1>1, <2>6, <2>8, <3>2, Zenon DEF Writes
      <4> QED
        BY <1>1, <4>1, <4>2, <4>3 DEF Recorded
    <3> QED
      BY <3>1, <3>2, Zenon
  <2>17. ASSUME NEW q \in Reqs, at[q].pc \in {"open", "stream"}, NEW o \in Listed(at[q].list)
         PROVE  Spares(o)
    <3>0. o \in PartNumbers
      BY <2>17, ListsParts, Zenon
    <3>1. CASE o = p
      <4>1. p \in Shared'
        BY <2>9, <2>17, <3>1, Zenon DEF Shared, Completes
      <4>2. ASSUME NEW m \in DOMAIN data, NEW e \in Etags, Holds(m, p, e) PROVE Holds(m, p, e)'
        <5>1. \A u \in PartNumbers : file'[u] = m => u = p
          BY <2>11, <4>2, Zenon DEF Holds
        <5> QED
          BY <4>1, <5>1, Zenon DEF Holds
      <4>3. \A e \in Etags : Ready(p, e)'
        BY <4>1, Zenon DEF Ready
      <4> QED
        BY <3>1, <4>1, <4>2, <4>3, Zenon DEF Spares
    <3>2. CASE o # p
      <4>1. o \in Shared' <=> o \in Shared
        BY <2>9, <3>2, Zenon DEF Shared
      <4>2. ASSUME NEW m \in DOMAIN data, NEW e \in Etags, Holds(m, o, e) PROVE Holds(m, o, e)'
        <5>1. m # k /\ data'[m] = data[m]
          <6>1. \A u \in PartNumbers : file[u] = m => u = o
            BY <4>2, Zenon DEF Holds
          <6> QED
            BY <2>13, <3>2, <6>1, Zenon
        <5>2. \A u \in PartNumbers : file'[u] = m => u = o
          BY <2>11, <4>2, <5>1, Zenon DEF Holds
        <5>3. o \notin Shared => \A s \in Reqs : at'[s].pc = "write" => at'[s].ino # m
          BY <2>6, <2>8, <4>2, <5>1, Zenon DEF Holds
        <5> QED
          BY <4>1, <4>2, <5>1, <5>2, <5>3, Zenon DEF Holds
      <4>3. ASSUME NEW e \in Etags, Ready(o, e) PROVE Ready(o, e)'
        <5>1. file'[o] = file[o] /\ file[o] # k
          BY <2>11, <2>12, <3>0, <3>2, Zenon
        <5>2. file[o] # None => data'[file[o]] = data[file[o]]
          BY <1>0, <2>10, <3>0, <5>1, Zenon DEF Types
        <5>3. \A s \in Reqs : Writes(s, o)' => Writes(s, o)
          BY <2>6, <2>8, <3>2, Zenon DEF Writes
        <5> QED
          BY <4>1, <4>3, <5>1, <5>2, <5>3 DEF Ready
      <4> QED
        BY <4>1, <4>2, <4>3, Zenon DEF Spares
    <3> QED
      BY <3>1, <3>2, Zenon
  <2>18. Types' /\ Fits(local)' /\ DOMAIN data \subseteq DOMAIN data'
    <3>1. Types'
      BY <1>0, <1>1, <2>7, <2>10, <2>11, Zenon DEF Types
    <3> QED
      BY <2>6, <2>10, <3>1, Zenon DEF Fits
  <2>19. local.pc \in Rest \cup {"create", "write", "validate", "open", "stream"} /\ local.pc # "create"
    BY <2>6, Zenon
  <2> QED
    BY <1>0, <1>2, <2>6, <2>7, <2>15, <2>16, <2>17, <2>18, <2>19, Moves, Zenon
<1> QED
  BY <1>3, <1>4, Zenon
-----------------------------------------------------------------------------
(* Completions.                                                            *)

Completing(r) == at[r].pc \in {"validate", "open", "stream"}

(* What is known of a completion.                                          *)
LEMMA Completion ==
  ASSUME SInv, NEW r \in Reqs, Completing(r)
  PROVE  /\ r \in Actors /\ ~Over /\ at[r].pc # "write" /\ Fits(at[r])
         /\ entry \in {"new", "live", "removed"}
<1>1. r \in Actors
  BY Zenon DEF Actors
<1> QED
  BY <1>1, Zenon DEF SInv, Types, Reads, Completing, Over

(* A completion goes on.                                                   *)
LEMMA GoesOn ==
  ASSUME SInv, NEW r \in Reqs, at[r].pc # "write", ~Over, NEW local, at' = [at EXCEPT ![r] = local],
         local.pc \in {"validate", "open", "stream"}, Fits(local) \/ Fits(local)', Listing(local.list),
         UNCHANGED <<entry, file, data, parts, answered, touched, twice, object>>, resent \subseteq resent'
  PROVE  SInv'
<1>1. r \in Actors /\ entry \in {"new", "live", "removed"} /\ ObjectMatches'
  BY SameObject, Zenon DEF Actors, SInv, Types
<1>2. local.pc # "create" /\ local.pc \in Rest \cup {"create", "validate", "open", "stream"}
  BY Zenon
<1>3. Listed(local.list) \subseteq PartNumbers
  <2> PICK l : l = local.list
    BY Zenon
  <2>1. \A i \in DOMAIN l : l[i][1] \in PartNumbers
    BY Entries, Zenon
  <2> QED
    BY <2>1, Zenon DEF Listed
<1> QED
  BY <1>1, <1>2, <1>3, Quiet, Zenon

(* A completion gives up.                                                  *)
LEMMA GivesUp ==
  ASSUME SInv, NEW r \in Reqs, Completing(r), at' = [at EXCEPT ![r] = Idle],
         UNCHANGED <<entry, file, data, parts, answered, touched, twice, resent, object>>
  PROVE  SInv'
<1>1. Idle.pc = "idle" /\ Fits(Idle)
  BY Zenon DEF Idle, Fits
<1>2. Idle.pc \in Rest \cup {"create", "validate", "open", "stream"}
  BY <1>1, Zenon DEF Rest
<1>3. /\ r \in Actors /\ ~Over /\ at[r].pc # "write" /\ ObjectMatches'
      /\ entry \in {"new", "live", "removed"}
  BY Completion, SameObject, Zenon DEF SInv
<1> QED
  BY <1>1, <1>2, <1>3, Quiet, Zenon

(* A completion is looked up.                                              *)
LEMMA LoadCompletionStep ==
  ASSUME SInv, NEW r \in Reqs, LoadCompletion(r)
  PROVE  SInv'
<1>1. /\ at[r].pc = "idle" /\ entry = "live"
      /\ UNCHANGED <<entry, file, data, parts, answered, touched, twice, resent, object>>
  BY Zenon DEF LoadCompletion, upload, history
<1>2. PICK l \in Lists : Ascending(l) /\ Goto(r, [pc |-> "validate", list |-> l])
  BY Zenon DEF LoadCompletion
<1>3. PICK n \in 1 .. Cardinality(PartNumbers) : l \in [1 .. n -> answered]
  BY Zenon DEF Lists
<1>4. Listing(l)
  <2>1. n \in Nat /\ n > 0
    OBVIOUS
  <2>2. answered \subseteq PartNumbers \X Etags
    BY Zenon DEF SInv, Types
  <2>3. l \in [1 .. n -> PartNumbers \X Etags]
    BY <1>3, <2>2, Zenon
  <2>4. l \in Seq(PartNumbers \X Etags) /\ Len(l) = n
    <3> PICK S : S = PartNumbers \X Etags
      BY Zenon
    <3>1. l \in [1 .. n -> S]
      BY <2>3, Zenon
    <3>2. l \in Seq(S) /\ Len(l) = n
      BY <2>1, <3>1
    <3> QED
      BY <3>2, Zenon
  <2>5. \A i \in 1 .. Len(l) - 1 : l[i][1] < l[i + 1][1]
    <3> SUFFICES ASSUME NEW i \in 1 .. Len(l) - 1 PROVE l[i][1] < l[i + 1][1]
      BY Zenon
    <3> PICK j \in 2 .. Len(l) : j = i + 1 /\ j - 1 = i
      BY <2>1, <2>4
    <3> QED
      BY <1>2, Zenon DEF Ascending
  <2> QED
    BY <2>1, <2>4, <2>5, Zenon DEF Listing
<1> PICK local : local = [pc |-> "validate", list |-> l]
  BY Zenon
<1>5. local.pc = "validate" /\ local.list = l /\ Fits(local) /\ at' = [at EXCEPT ![r] = local]
  BY <1>2, <1>4, Zenon DEF Fits, Validates, Goto
<1>6. ~Over
  BY <1>1, Zenon DEF Over
<1> QED
  BY <1>1, <1>4, <1>5, <1>6, GoesOn, Zenon

(* The parts of a list are validated.                                      *)
LEMMA ValidatePartsStep ==
  ASSUME SInv, NEW r \in Reqs, ValidateParts(r)
  PROVE  SInv'
<1>1. /\ at[r].pc = "validate" /\ Completing(r)
      /\ UNCHANGED <<entry, file, data, parts, answered, touched, twice, object>>
  BY Zenon DEF ValidateParts, Completing
<1>2. ~Over /\ at[r].pc # "write" /\ Validates(at[r]) /\ r \in Actors
  BY <1>1, Completion, Zenon DEF Fits
<1> PICK l : l = at[r].list
  BY Zenon
<1>3. Listing(l)
  BY <1>2, Zenon DEF Validates
<1>4. CASE Valid(l)
  <2> PICK local : local = [pc |-> "open", list |-> l, fds |-> << >>]
    BY Zenon
  <2>1. /\ at' = [at EXCEPT ![r] = local] /\ local.pc = "open" /\ local.list = l /\ local.fds = << >>
        /\ resent' = resent \cup {p \in Listed(l) : \E s \in Reqs : Writes(s, p)}
    BY <1>4, Zenon DEF ValidateParts, Goto
  <2>2. at'[r] = local /\ \A q \in Reqs : q # r => at'[q] = at[q]
    BY <1>2, <2>1, OneMoves, Zenon DEF SInv
  <2>3. ASSUME NEW i \in 1 .. Len(l) PROVE Ready(l[i][1], l[i][2])'
    <3>1. PICK p \in PartNumbers, e \in Etags : p = l[i][1] /\ e = l[i][2] /\ i \in DOMAIN l /\ p \in Listed(l)
      BY <1>3, Entries, Zenon
    <3>2. parts[p] = e /\ e # None
      BY <1>4, <3>1, NoneAssumption, Zenon DEF Valid, Etags
    <3>3. ASSUME p \notin Shared'
          PROVE  (file[p] = None \/ data[file[p]] = e) /\ \A s \in Reqs : ~Writes(s, p)'
      <4>1. p \notin twice /\ \A s \in Reqs : ~Writes(s, p)
        BY <1>1, <2>1, <3>1, <3>3, Zenon DEF Shared
      <4>2. Recorded(p)
        BY <4>1, Zenon DEF SInv, Kept
      <4>3. \A s \in Reqs : Writes(s, p)' => Writes(s, p)
        BY <2>1, <2>2, Zenon DEF Writes
      <4> QED
        BY <1>2, <3>2, <4>1, <4>2, <4>3, Zenon DEF Recorded
    <3>4. Ready(p, e)'
      BY <1>1, <3>3, Zenon DEF Ready
    <3> QED
      BY <3>1, <3>4, Zenon
  <2>4. HasOpen(local)' /\ Len(local.fds) < Len(local.list)
    <3>1. Len(l) \in Nat /\ Len(l) > 0
      BY <1>3, Entries, Zenon DEF Listing
    <3>2. << >> \in Seq(DOMAIN data') /\ Len(<< >>) = 0 /\ 1 .. 0 = {}
      OBVIOUS
    <3>3. 0 <= Len(l) /\ 0 < Len(l)
      BY <3>1
    <3> QED
      BY <1>3, <2>1, <3>2, <3>3, Zenon DEF HasOpen
  <2>5. Fits(local)'
    BY <2>1, <2>3, <2>4, Zenon DEF Opens, Fits
  <2>6. resent \subseteq resent'
    BY <2>1, Zenon
  <2> QED
    BY <1>1, <1>2, <1>3, <2>1, <2>5, <2>6, GoesOn, Zenon
<1>5. CASE ~Valid(l)
  BY <1>1, <1>5, GivesUp, Zenon DEF ValidateParts, Goto
<1> QED
  BY <1>4, <1>5, Zenon

(* A part that is ready and there is open as it should be.                 *)
LEMMA OpenedReady ==
  ASSUME SInv, NEW p \in PartNumbers, NEW e, Ready(p, e), file[p] # None
  PROVE  file[p] \in DOMAIN data /\ Holds(file[p], p, e)
<1>1. file[p] \in DOMAIN data
  BY Zenon DEF SInv, Types
<1>2. \A o \in PartNumbers : file[o] = file[p] => o = p
  BY Zenon DEF SInv, Own
<1>3. ASSUME NEW s \in Reqs, at[s].pc = "write", at[s].ino = file[p] PROVE Writes(s, p)
  BY <1>3, Writer, Zenon DEF Writes
<1> QED
  BY <1>1, <1>2, <1>3, Zenon DEF Holds, Ready

(* The next part is opened.                                                *)
LEMMA OpenPartStep ==
  ASSUME SInv, NEW r \in Reqs, OpenPart(r)
  PROVE  SInv'
<1>1. /\ at[r].pc = "open" /\ Completing(r)
      /\ UNCHANGED <<entry, file, data, parts, answered, touched, twice, resent, object>>
  BY Zenon DEF OpenPart, Completing, history
<1>2. ~Over /\ at[r].pc # "write" /\ Opens(at[r])
  BY <1>1, Completion, Zenon DEF Fits
<1>3. PICK l, fds : l = at[r].list /\ fds = at[r].fds
  BY Zenon
<1>4. /\ at[r] = [pc |-> "open", list |-> l, fds |-> fds]
      /\ Listing(l) /\ fds \in Seq(DOMAIN data) /\ Len(fds) < Len(l)
      /\ \A i \in 1 .. Len(fds) : Holds(fds[i], l[i][1], l[i][2])
      /\ \A i \in 1 .. Len(l) : Ready(l[i][1], l[i][2])
  BY <1>2, <1>3, Zenon DEF Opens, HasOpen
<1>5. Len(fds) \in Nat /\ Len(l) \in Nat
  BY <1>4, MoreFiles, Entries, Zenon
<1>6. PICK n \in Nat : n = Len(fds) + 1 /\ n \in 1 .. Len(l) /\ n <= Len(l)
  BY <1>4, <1>5
<1>7. PICK k : k = file[l[n][1]]
  BY Zenon
<1>8. k = None \/ (k \in DOMAIN data /\ Holds(k, l[n][1], l[n][2]))
  BY <1>4, <1>6, <1>7, Entries, OpenedReady, Zenon
<1>9. PICK more : more = Append(fds, k)
  BY Zenon
<1>10. k = file[NextToOpen(at[r])] /\ more = Append(at[r].fds, k)
  BY <1>3, <1>6, <1>7, <1>9, Zenon DEF NextToOpen
<1>11. CASE k = None
  BY <1>1, <1>10, <1>11, GivesUp, Zenon DEF OpenPart, Goto
<1>12. CASE k # None
  <2>1. /\ more \in Seq(DOMAIN data) /\ Len(more) = n
        /\ \A i \in 1 .. n : Holds(more[i], l[i][1], l[i][2])
    <3> PICK S : S = DOMAIN data
      BY Zenon
    <3>1. k \in S /\ fds \in Seq(S)
      BY <1>4, <1>8, <1>12, Zenon
    <3>2. /\ more \in Seq(S) /\ Len(more) = n /\ more[n] = k
          /\ \A i \in 1 .. Len(fds) : more[i] = fds[i]
      BY <1>6, <1>9, <3>1
    <3>3. \A i \in 1 .. n : i = n \/ i \in 1 .. Len(fds)
      BY <1>5, <1>6
    <3> QED
      BY <1>4, <1>8, <1>12, <3>2, <3>3, Zenon
  <2>2. CASE n < Len(l)
    <3> PICK local : local = [pc |-> "open", list |-> l, fds |-> more]
      BY Zenon
    <3>1. local.pc = "open" /\ local.list = l /\ local.fds = more
      BY Zenon
    <3>2. at' = [at EXCEPT ![r] = [at[r] EXCEPT !.fds = more]]
      BY <1>3, <1>10, <1>12, <2>1, <2>2, Zenon DEF OpenPart, Goto
    <3>3. [at[r] EXCEPT !.fds = more] = local
      BY <1>4
    <3>4. Opens(local)
      BY <1>4, <1>6, <2>1, <2>2, <3>1, Zenon DEF Opens, HasOpen
    <3>5. at' = [at EXCEPT ![r] = local]
      BY <3>2, <3>3, Zenon
    <3>6. Fits(local) /\ resent \subseteq resent'
      BY <1>1, <3>1, <3>4, Zenon DEF Fits
    <3> QED
      BY <1>1, <1>2, <1>4, <3>1, <3>5, <3>6, GoesOn, Zenon
  <2>3. CASE ~(n < Len(l))
    <3> PICK local : local = [pc |-> "stream", list |-> l, fds |-> more, got |-> << >>, read |-> 0]
      BY Zenon
    <3>1. /\ local.pc = "stream" /\ local.list = l /\ local.fds = more
          /\ local.got = << >> /\ local.read = 0
      BY Zenon
    <3>2. at' = [at EXCEPT ![r] = local]
      BY <1>3, <1>10, <1>12, <2>1, <2>3, Zenon DEF OpenPart, Goto
    <3>3. Joined(<< >>, l, 0)
      BY S3Assumption DEF Joined
    <3>4. Len(more) = Len(l) /\ 0 \in 0 .. Len(more)
      BY <1>5, <1>6, <2>1, <2>3
    <3>5. Streams(local)
      <4>1. HasOpen(local)
        BY <1>4, <1>6, <2>1, <3>1, Zenon DEF HasOpen
      <4> QED
        BY <3>1, <3>3, <3>4, <4>1, Zenon DEF Streams
    <3> QED
      BY <1>1, <1>2, <1>4, <3>1, <3>2, <3>5, GoesOn, Zenon DEF Fits
  <2> QED
    BY <2>2, <2>3, Zenon
<1> QED
  BY <1>11, <1>12, Zenon

(* putStream reads the next of the open files.                             *)
LEMMA StreamPartStep ==
  ASSUME SInv, NEW r \in Reqs, StreamPart(r)
  PROVE  SInv'
<1>1. /\ at[r].pc = "stream" /\ Completing(r) /\ at[r].read < Len(at[r].fds)
      /\ UNCHANGED <<entry, file, data, parts, answered, touched, twice, resent, object>>
  BY Zenon DEF StreamPart, Completing, upload, history
<1>2. ~Over /\ at[r].pc # "write" /\ Streams(at[r])
  BY <1>1, Completion, Zenon DEF Fits
<1>3. PICK l, fds, got, n : l = at[r].list /\ fds = at[r].fds /\ got = at[r].got /\ n = at[r].read
  BY Zenon
<1>4. /\ at[r] = [pc |-> "stream", list |-> l, fds |-> fds, got |-> got, read |-> n]
      /\ HasOpen(at[r]) /\ Listing(l) /\ fds \in Seq(DOMAIN data) /\ Len(fds) = Len(l)
      /\ \A i \in 1 .. Len(fds) : Holds(fds[i], l[i][1], l[i][2])
      /\ n \in 0 .. Len(fds) /\ (Listed(l) \cap Shared = {} => Joined(got, l, n))
  BY <1>2, <1>3, Zenon DEF Streams, HasOpen
<1>5. Len(l) \in Nat
  BY <1>4, Entries, Zenon
<1>6. n \in Nat /\ n < Len(l) /\ n + 1 \in 1 .. Len(l) /\ n + 1 \in 0 .. Len(l)
  BY <1>1, <1>3, <1>4, <1>5
<1>7. PICK m, more : m = n + 1 /\ more = got \o data[fds[m]]
  BY Zenon
<1>8. Listed(l) \cap Shared = {} => Joined(more, l, m)
  <2> SUFFICES ASSUME Listed(l) \cap Shared = {} PROVE Joined(more, l, m)
    BY Zenon
  <2>1. l[m][1] \notin Shared
    BY <1>4, <1>6, <1>7, Entries, Zenon
  <2>2. data[fds[m]] = l[m][2]
    BY <1>4, <1>6, <1>7, <2>1, Zenon DEF Holds
  <2>3. Joined(got, l, n)
    BY <1>4, Zenon
  <2> QED
    BY <1>4, <1>6, <1>7, <2>2, <2>3, JoinNext, Zenon
<1> PICK local : local = [pc |-> "stream", list |-> l, fds |-> fds, got |-> more, read |-> m]
  BY Zenon
<1>9. /\ local.pc = "stream" /\ local.list = l /\ local.fds = fds
      /\ local.got = more /\ local.read = m
  BY Zenon
<1>10. at' = [at EXCEPT ![r] = local]
  <2>1. at' = [at EXCEPT ![r] = [at[r] EXCEPT !.got = more, !.read = m]]
    BY <1>3, <1>7, Zenon DEF StreamPart, Goto
  <2>2. [[at[r] EXCEPT !.got = more] EXCEPT !.read = m] = local
    <3>1. [at[r] EXCEPT !.got = more] = [pc |-> "stream", list |-> l, fds |-> fds, got |-> more, read |-> n]
      BY <1>4
    <3> PICK q : q = [pc |-> "stream", list |-> l, fds |-> fds, got |-> more, read |-> n]
      BY Zenon
    <3>2. [q EXCEPT !.read = m] = local
      OBVIOUS
    <3> QED
      BY <3>1, <3>2, Zenon
  <2> QED
    BY <2>1, <2>2, Zenon
<1>11. HasOpen(local)
  BY <1>3, <1>4, <1>9, Zenon DEF HasOpen
<1>12. Fits(local) /\ resent \subseteq resent'
  BY <1>1, <1>4, <1>6, <1>7, <1>8, <1>9, <1>11, Zenon DEF Streams, Fits
<1> QED
  BY <1>1, <1>2, <1>4, <1>9, <1>10, <1>12, GoesOn, Zenon

(* putStream returns: the object is what was listed.                       *)
LEMMA PutReturnsStep ==
  ASSUME SInv, NEW r \in Reqs, PutReturns(r)
  PROVE  SInv'
<1>1. /\ at[r].pc = "stream" /\ Completing(r)
      /\ UNCHANGED <<entry, file, data, parts, answered, touched, twice, resent>>
  BY Zenon DEF PutReturns, Completing, upload, history
<1>2. CASE Goto(r, Idle) /\ UNCHANGED object
  BY <1>1, <1>2, GivesUp, Zenon DEF Goto
<1>3. CASE /\ at[r].read = Len(at[r].fds)
           /\ object' = [content |-> at[r].got, list |-> at[r].list, shared |-> twice \cup resent]
           /\ Goto(r, [pc |-> "remove"])
  <2> PICK local : local = [pc |-> "remove"]
    BY Zenon
  <2>1. at' = [at EXCEPT ![r] = local] /\ local.pc = "remove" /\ Fits(local)
    BY <1>3, Zenon DEF Goto, Fits
  <2>2. local.pc \in Rest \cup {"create", "validate", "open", "stream"}
    BY <2>1, Zenon DEF Rest
  <2>3. Streams(at[r]) /\ ~Over /\ r \in Actors /\ entry \in {"new", "live", "removed"}
    BY <1>1, Completion, Zenon DEF Fits
  <2>4. PICK l, got : l = at[r].list /\ got = at[r].got
    BY Zenon
  <2>5. Listing(l) /\ (Listed(l) \cap Shared = {} => Joined(got, l, Len(l)))
    BY <1>3, <2>3, <2>4, Zenon DEF Streams, HasOpen
  <2>6. object'.list = l /\ object'.content = got /\ object'.shared = Shared
    BY <1>3, <2>4, Zenon DEF Shared
  <2>7. DOMAIN l = 1 .. Len(l) /\ \A i \in DOMAIN l : \E b \in Bodies : l[i][2] = Body(b)
    BY <2>5, Entries, Zenon DEF Etags
  <2>8. Listed(l) \cap Shared = {} => Assembled'
    BY <2>5, <2>6, <2>7, Zenon DEF Assembled, Joined
  <2>9. ObjectMatches'
    BY <2>5, <2>6, <2>7, <2>8, Zenon DEF ObjectMatches, Listing
  <2> QED
    BY <1>1, <2>1, <2>2, <2>3, <2>9, Quiet, Zenon
<1> QED
  BY <1>2, <1>3, Zenon DEF PutReturns
-----------------------------------------------------------------------------
(* The removal of an upload, and the steps nobody's request takes.         *)

(* An abort, or the decision of the reaper.                                *)
LEMMA AbortStep ==
  ASSUME SInv, NEW a \in Actors, at[a].pc = "idle", at' = [at EXCEPT ![a] = [pc |-> "remove"]],
         UNCHANGED <<entry, file, data, parts, answered, touched, twice, resent, object>>
  PROVE  SInv'
<1> PICK local : local = [pc |-> "remove"]
  BY Zenon
<1>1. at' = [at EXCEPT ![a] = local] /\ local.pc = "remove" /\ Fits(local)
  BY Zenon DEF Fits
<1>2. local.pc \in Rest \cup {"create", "validate", "open", "stream"}
  BY <1>1, Zenon DEF Rest
<1>3. ObjectMatches' /\ entry \in {"new", "live", "removed"} /\ Locals
  BY SameObject, Zenon DEF SInv, Types
<1>4. Over => Over'
  BY <1>1, <1>3, OneMoves, Zenon DEF Over
<1> QED
  BY <1>1, <1>2, <1>3, <1>4, Quiet, Zenon

(* removeUpload.                                                           *)
LEMMA RemovalStep ==
  ASSUME SInv, RInv, NEW a \in Actors, Removal(a)
  PROVE  SInv'
<1>1. PICK local : /\ at' = [at EXCEPT ![a] = local] /\ local.pc \in {"idle", "files", "dir"}
                   /\ at[a].pc = "remove" /\ entry # "live" => local.pc = "idle"
  <2>1. CASE LoadAndDelete(a) /\ entry = "live"
    <3> PICK local : local = [pc |-> "files"]
      BY Zenon
    <3>1. at' = [at EXCEPT ![a] = local] /\ local.pc = "files"
      BY <2>1, Zenon DEF LoadAndDelete, Goto
    <3> QED
      BY <2>1, <3>1, Zenon
  <2>2. CASE (LoadAndDelete(a) /\ entry # "live") \/ RemoveDir(a)
    <3>1. at' = [at EXCEPT ![a] = Idle] /\ Idle.pc = "idle"
      BY <2>2, Zenon DEF LoadAndDelete, RemoveDir, Goto, Idle
    <3> QED
      BY <3>1, Zenon
  <2>3. CASE RemoveFiles(a)
    <3> PICK local : local = [pc |-> "dir"]
      BY Zenon
    <3>1. at' = [at EXCEPT ![a] = local] /\ local.pc = "dir" /\ at[a].pc = "files"
      BY <2>3, Zenon DEF RemoveFiles, Goto
    <3> QED
      BY <3>1, Zenon
  <2> QED
    BY <2>1, <2>2, <2>3, Zenon DEF Removal
<1>2. /\ at[a].pc \in {"remove", "files", "dir"}
      /\ UNCHANGED <<data, parts, answered, touched, twice, resent, object>>
      /\ entry' = entry \/ (entry = "live" /\ entry' = "removed")
      /\ file' = file \/ (file' = [p \in PartNumbers |-> None] /\ entry' = entry /\ at[a].pc = "files")
  BY Zenon DEF Removal, LoadAndDelete, RemoveFiles, RemoveDir, history
<1>3. Locals /\ ObjectMatches' /\ entry \in {"new", "live", "removed"}
  BY <1>2, SameObject, Zenon DEF SInv, Types
<1>4. at[a].pc = "files" => entry = "removed"
  BY Zenon DEF RInv, Removals
<1>5. Over => Over'
  BY <1>1, <1>2, <1>3, OneMoves, Zenon DEF Over
<1>6. /\ local.pc \in Rest \cup {"create", "validate", "open", "stream"}
      /\ local.pc \notin {"create", "validate", "open", "stream"} /\ Fits(local)
  BY <1>1, Zenon DEF Rest, Fits
<1>7. /\ entry' \in {"new", "live", "removed"} /\ (entry' # "removed" => entry # "removed")
      /\ file' = file \/ (file' = [p \in PartNumbers |-> None] /\ entry' = "removed")
      /\ resent \subseteq resent' /\ at[a].pc # "write"
  BY <1>2, <1>3, <1>4, Zenon
<1> QED
  BY <1>1, <1>2, <1>3, <1>5, <1>6, <1>7, Quiet, Zenon

(* The upload begins, or time passes.                                      *)
LEMMA OutsideStep ==
  ASSUME SInv, entry' = entry \/ (entry = "new" /\ entry' = "live"),
         UNCHANGED <<file, data, parts, at, answered, touched, twice, resent, object>>
  PROVE  SInv'
<1>0. Types /\ Locals /\ Own /\ Kept /\ Reads /\ ObjectMatches
  BY Zenon DEF SInv
<1>1. Types' /\ Locals' /\ ObjectMatches'
  BY <1>0, SameObject, Zenon DEF Types, Locals
<1>2. SameWriters /\ (Over => Over') /\ (entry' # "removed" => entry # "removed")
  BY Zenon DEF SameWriters, Over
<1>3. Own' /\ Kept' /\ \A p \in PartNumbers : Spares(p)
  BY <1>2, QuietFiles, Zenon
<1>4. Reads'
  <2>1. /\ at' = at /\ file' = file /\ data' = data /\ twice' = twice /\ resent' = resent
    OBVIOUS
  <2>2. Shared' = Shared /\ \A s \in Reqs, p \in PartNumbers : Writes(s, p)' <=> Writes(s, p)
    BY <2>1, Zenon DEF Shared, Writes
  <2>3. ASSUME NEW q PROVE HasOpen(q) => HasOpen(q)'
    <3>1. ASSUME NEW k, NEW p, NEW e PROVE Holds(k, p, e) => Holds(k, p, e)'
      BY <2>1, <2>2, Zenon DEF Holds
    <3> QED
      BY <2>1, <3>1, Zenon DEF HasOpen
  <2>4. ASSUME NEW p, NEW e PROVE Ready(p, e) => Ready(p, e)'
    BY <2>1, <2>2, Zenon DEF Ready, Writes
  <2>5. ASSUME NEW q PROVE Fits(q) => Fits(q)'
    BY <2>2, <2>3, <2>4, Zenon DEF Fits, Validates, Opens, Streams
  <2> QED
    BY <1>0, <2>1, <2>5, Zenon DEF Reads
<1> QED
  BY <1>1, <1>3, <1>4, Zenon DEF SInv

(* The server dies: the requests are gone, and the upload is over.         *)
LEMMA RestartStep ==
  ASSUME SInv, Restart
  PROVE  SInv'
<1>0. Types /\ Own /\ Kept /\ ObjectMatches
  BY Zenon DEF SInv
<1>1. /\ \A a \in Actors : at'[a] = Idle
      /\ DOMAIN at' = Actors /\ Reqs \subseteq Actors /\ Idle.pc = "idle"
      /\ entry' = "removed" /\ UNCHANGED <<data, parts, answered, object, touched, twice, resent>>
      /\ file' = file \/ file' = [p \in PartNumbers |-> None]
  BY Zenon DEF Restart, Idle, Actors, history
<1>2. Over'
  BY <1>1, Zenon DEF Over
<1>3. file' \in [PartNumbers -> {None} \cup DOMAIN data] /\ \A p \in PartNumbers : file'[p] \in {None, file[p]}
  BY <1>0, <1>1, Zenon DEF Types
<1>4. Types'
  BY <1>0, <1>1, <1>3, Zenon DEF Types
<1>5. Locals' /\ Reads'
  BY <1>1, Zenon DEF Locals, Reads, Fits, Rest
<1>6. ObjectMatches'
  BY <1>0, <1>1, SameObject, Zenon
<1>7. Own'
  BY <1>0, <1>1, <1>3 DEF Own
<1>8. Kept'
  <2> SUFFICES ASSUME NEW p \in PartNumbers, p \notin twice PROVE Recorded(p)'
    BY <1>1, Zenon DEF Kept
  <2>1. Recorded(p) /\ file'[p] \in {None, file[p]}
    BY <1>0, <1>3, Zenon DEF Kept
  <2> QED
    BY <1>1, <1>2, <2>1 DEF Recorded
<1> QED
  BY <1>4, <1>5, <1>6, <1>7, <1>8, Zenon DEF SInv
-----------------------------------------------------------------------------
(* At first nothing is stored and nobody is at work.                       *)
LEMMA InitSInv == Init => SInv
<1> SUFFICES ASSUME Init PROVE SInv
  BY Zenon
<1>0. \A a \in Actors : at[a].pc = "idle"
  BY Zenon DEF Init, Idle
<1>1. Types
  BY DEF Init, Types
<1>2. Locals
  BY <1>0, Zenon DEF Init, Locals, Rest
<1>3. Own /\ Reads /\ ObjectMatches
  BY <1>0, Zenon DEF Init, Own, Reads, Fits, ObjectMatches, Actors
<1>4. Kept
  BY <1>0, Zenon DEF Init, Kept, Recorded, Writes, Actors
<1> QED
  BY <1>1, <1>2, <1>3, <1>4, Zenon DEF SInv

(* Every step keeps the invariant.                                         *)
LEMMA NextSInv == SInv /\ RInv /\ [Next]_vars => SInv'
<1> SUFFICES ASSUME SInv, RInv, [Next]_vars PROVE SInv'
  BY Zenon
<1>1. CASE UNCHANGED vars
  BY <1>1, OutsideStep, Zenon DEF vars, upload, history
<1>2. CASE CreateMultipartUpload \/ Age
  BY <1>2, OutsideStep, Zenon DEF CreateMultipartUpload, Age, history
<1>3. CASE Restart
  BY <1>3, RestartStep, Zenon
<1>4. CASE ReapExpired
  <2>1. Reaper \in Actors
    BY Zenon DEF Actors
  <2> QED
    BY <1>4, <2>1, AbortStep, Zenon DEF ReapExpired, Goto, upload, history
<1>5. ASSUME NEW r \in Reqs, Request(r) PROVE SInv'
  <2>1. r \in Actors
    BY Zenon DEF Actors
  <2>2. CASE AbortMultipartUpload(r)
    BY <2>1, <2>2, AbortStep, Zenon DEF AbortMultipartUpload, Goto, upload, history
  <2> QED
    BY <1>5, <2>2, LoadUploadStep, LoadCompletionStep, Zenon DEF Request
<1>6. ASSUME NEW r \in Reqs, Handler(r) PROVE SInv'
  BY <1>6, CreateFileStep, WriteCellStep, FailPartStep, RecordPartStep, ValidatePartsStep,
     OpenPartStep, StreamPartStep, PutReturnsStep, Zenon DEF Handler
<1>7. ASSUME NEW a \in Actors, Removal(a) PROVE SInv'
  BY <1>7, RemovalStep, Zenon
<1> QED
  BY <1>1, <1>2, <1>3, <1>4, <1>5, <1>6, <1>7, Zenon DEF Next

(* Both invariants hold from the first request of an upload on, however    *)
(* its requests overlap: writers of different parts, the reaper, the       *)
(* completions, aborts and a restart of the server never get into each     *)
(* other's files, and the parts that two writers, or a writer and a        *)
(* completion, do share are the ones the history has marked.               *)
THEOREM UploadInvariant == Spec => [](SInv /\ RInv)
<1>1. Init => SInv /\ RInv
  BY InitSInv DEF Init, RInv, Removals, DirReclaimed, Idle
<1>2. SInv /\ RInv /\ [Next]_vars => (SInv /\ RInv)'
  BY NextSInv, NextRInv, Zenon
<1> QED
  BY <1>1, <1>2, PTL DEF Spec

(* A stored object lists received parts in the order of their numbers and  *)
(* is those parts, whole, with the etags listed, unless one of them was    *)
(* written by two requests at once or while it was being completed: what   *)
(* CompleteMultipartUpload validates is what putStream then reads, also    *)
(* when other parts are sent, or the upload is aborted or reaped, in       *)
(* between.                                                                *)
THEOREM ObjectsAreTheirParts == Spec => []ObjectMatches
<1>1. SInv /\ RInv => ObjectMatches
  BY Zenon DEF SInv
<1> QED
  BY <1>1, UploadInvariant, PTL

(* A part that is recorded is on disk as it was received until a later     *)
(* request begins to write it again, unless two requests wrote it at once: *)
(* UploadPart of other parts, its failures, completions and the reaper do  *)
(* not touch it while the upload can be looked up.                         *)
THEOREM PartsStayIntact == Spec => []PartIntact
<1>1. SInv /\ RInv => PartIntact
  BY Zenon DEF SInv, Kept, Recorded, PartIntact
<1> QED
  BY <1>1, UploadInvariant, PTL
=============================================================================
