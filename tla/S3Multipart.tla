---------------------------- MODULE S3Multipart ----------------------------
(***************************************************************************)
(* Multipart uploads of the S3 server (server/s3/multipart.go).  One       *)
(* upload id is modelled: the entries of b.uploads are independent.        *)
(*                                                                         *)
(* A part is the sequence of its cells, and so is its MD5 (no collisions). *)
(* The files are modelled down to inodes, because os.Create truncates the  *)
(* file another request may have open, while a removed file stays readable *)
(* for those who have it open.  os.RemoveAll takes the files first and the *)
(* directory then, and leaves a directory that is no longer empty.         *)
(*                                                                         *)
(* Requests overlap in every way: "gofakes3 does not serialize operations  *)
(* for the same uploadID".  twice and resent are history: the parts two    *)
(* requests wrote at once, and those written during a completion of them,  *)
(* both since the part was last begun with nobody else at it.              *)
(***************************************************************************)
EXTENDS Naturals, FiniteSets, Sequences

CONSTANTS PartNumbers, \* the part numbers in use
          Bodies,      \* the bodies clients send
          BodyLen,     \* contentLength, in cells
          Reqs,        \* the concurrent requests
          Reaper,      \* the goroutine of startReaper
          MaxSends,    \* bound: UploadPart requests
          None

ASSUME S3Assumption ==
    /\ PartNumbers \subseteq Nat \ {0} /\ IsFiniteSet(PartNumbers)
    /\ BodyLen \in Nat \ {0} /\ MaxSends \in Nat
    /\ Reaper \notin Reqs

VARIABLES
    entry,    \* of b.uploads: "new", "live" or "removed"
    dir,      \* the directory exists
    file,     \* per part number: the inode of its file
    data,     \* per inode: its content
    parts,    \* state.parts: the MD5 recorded
    mu,       \* the holder of state.mu
    stale,    \* lastActivity is longer ago than the TTL
    at,       \* per request and the reaper: its local state
    sends,    \* UploadPart requests so far
    answered, \* the <<part number, etag>> clients were answered
    object,   \* the object stored last, with the request for it
    touched,  \* the parts whose file was created again since they were recorded
    twice,    \* the parts two requests wrote at once
    resent,   \* the parts written while a completion that lists them runs
    late      \* a file was created after the entry was gone, or the server died

upload == <<entry, dir, file, data, parts, mu, stale>>
history == <<touched, twice, resent>>
vars == <<upload, at, sends, answered, object, history, late>>
-----------------------------------------------------------------------------
Actors == Reqs \cup {Reaper}

Idle == [pc |-> "idle"]

Body(b) == [i \in 1 .. BodyLen |-> <<b, i>>]

(* None is no inode and no etag.                                           *)
ASSUME NoneAssumption == None \notin Nat /\ \A b \in Bodies : Body(b) # None

Init ==
    /\ entry = "new" /\ dir = FALSE
    /\ file = [p \in PartNumbers |-> None]
    /\ data = <<>>
    /\ parts = [p \in PartNumbers |-> None]
    /\ mu = None /\ stale = FALSE
    /\ at = [a \in Actors |-> Idle]
    /\ sends = 0 /\ answered = {} /\ object = None
    /\ touched = {} /\ twice = {} /\ resent = {} /\ late = FALSE

Goto(a, local) == at' = [at EXCEPT ![a] = local]

CreateMultipartUpload ==
    /\ entry = "new"
    /\ entry' = "live" /\ dir' = TRUE
    /\ UNCHANGED <<file, data, parts, mu, stale, at, sends, answered, object, history, late>>
-----------------------------------------------------------------------------
(* UploadPart.                                                             *)

Uploading(r) == at[r].pc \in {"create", "write"}

(* r is writing part p; r has found part p valid and is to read it.        *)
Writes(r, p) == at[r].pc = "write" /\ at[r].p = p

Listed(l) == {l[i][1] : i \in DOMAIN l}

Completes(r, p) == at[r].pc \in {"open", "stream"} /\ p \in Listed(at[r].list)

(* p is added to the set if it is shared, and taken out of it if not.      *)
Mark(set, p, shared) == IF shared THEN set \cup {p} ELSE set \ {p}

(* The upload is looked up.                                                *)
LoadUpload(r) ==
    /\ at[r].pc = "idle" /\ entry = "live" /\ sends < MaxSends
    /\ sends' = sends + 1
    /\ \E p \in PartNumbers, b \in Bodies : Goto(r, [pc |-> "create", p |-> p, body |-> b])
    /\ UNCHANGED <<upload, answered, object, history, late>>

(* os.Create: it fails without the directory, truncates a file that is     *)
(* there, makes one that is not.                                           *)
CreateFile(r) ==
    LET q == at[r] IN
    /\ q.pc = "create"
    /\ IF ~dir
       THEN /\ Goto(r, Idle)
            /\ UNCHANGED <<file, data, history, late>>
       ELSE LET new == file[q.p] = None
                ino == IF new THEN Len(data) + 1 ELSE file[q.p]
            IN  /\ file' = [file EXCEPT ![q.p] = ino]
                /\ data' = IF new THEN Append(data, <<>>) ELSE [data EXCEPT ![ino] = <<>>]
                /\ Goto(r, [pc |-> "write", p |-> q.p, body |-> q.body, n |-> 0, ino |-> ino])
                /\ touched' = touched \cup {q.p}
                /\ twice' = Mark(twice, q.p, \E s \in Reqs : Writes(s, q.p))
                /\ resent' = Mark(resent, q.p, \E s \in Reqs : Completes(s, q.p))
                /\ late' = (late \/ entry # "live")
    /\ UNCHANGED <<entry, dir, parts, mu, stale, sends, answered, object>>

(* A write at the offset of the handler; a gap before it is a hole.        *)
WrittenAt(content, i, cell) ==
    [j \in 1 .. IF i > Len(content) THEN i ELSE Len(content) |->
        IF j = i THEN cell ELSE IF j <= Len(content) THEN content[j] ELSE "hole"]

WriteCell(r) ==
    LET q == at[r] IN
    /\ q.pc = "write" /\ q.n < BodyLen
    /\ data' = [data EXCEPT ![q.ino] = WrittenAt(@, q.n + 1, Body(q.body)[q.n + 1])]
    /\ Goto(r, [q EXCEPT !.n = @ + 1])
    /\ UNCHANGED <<entry, dir, file, parts, mu, stale, sends, answered, object, history, late>>

(* A variant of FailPart that takes the other parts along.                 *)
FailPartSlip(r) ==
    /\ at[r].pc = "write"
    /\ file' = [p \in PartNumbers |-> None]
    /\ Goto(r, Idle)
    /\ UNCHANGED <<entry, dir, data, parts, mu, stale, sends, answered, object, history, late>>

(* The body ends early, or writing or closing the file fails: the deferred *)
(* function removes what is at the path.                                   *)
FailPart(r) ==
    LET q == at[r] IN
    /\ q.pc = "write"
    /\ file' = [file EXCEPT ![q.p] = None]
    /\ Goto(r, Idle)
    /\ UNCHANGED <<entry, dir, data, parts, mu, stale, sends, answered, object, history, late>>

Whole(q) == q.n = BodyLen

(* The part is recorded under mu and its etag answered.                    *)
RecordPart(r) ==
    LET q    == at[r]
        etag == SubSeq(Body(q.body), 1, q.n)
    IN  /\ q.pc = "write" /\ Whole(q) /\ mu = None
        /\ parts' = [parts EXCEPT ![q.p] = etag]
        /\ stale' = FALSE
        /\ answered' = answered \cup {<<q.p, etag>>}
        /\ touched' = touched \ {q.p}
        /\ Goto(r, Idle)
        /\ UNCHANGED <<entry, dir, file, data, mu, sends, object, twice, resent, late>>
-----------------------------------------------------------------------------
(* CompleteMultipartUpload.  A client lists parts with etags it got.       *)
Lists == UNION {[1 .. n -> answered] : n \in 1 .. Cardinality(PartNumbers)}

Ascending(l) == \A i \in 2 .. Len(l) : l[i - 1][1] < l[i][1]

LoadCompletion(r) ==
    /\ at[r].pc = "idle" /\ entry = "live"
    /\ \E l \in Lists : Ascending(l) /\ Goto(r, [pc |-> "validate", list |-> l])
    /\ UNCHANGED <<upload, sends, answered, object, history, late>>

(* A variant of Valid: an etag is good when the part was received.         *)
ValidSlip(l) == \A i \in DOMAIN l : parts[l[i][1]] # None

Valid(l) == \A i \in DOMAIN l : parts[l[i][1]] = l[i][2]

(* Every part is there with its etag: the lock is kept for the opening.    *)
ValidateParts(r) ==
    LET q == at[r] IN
    /\ q.pc = "validate" /\ mu = None
    /\ IF Valid(q.list)
       THEN /\ mu' = r /\ Goto(r, [pc |-> "open", list |-> q.list, fds |-> <<>>])
            /\ resent' = resent \cup {p \in Listed(q.list) : \E s \in Reqs : Writes(s, p)}
       ELSE UNCHANGED <<mu, resent>> /\ Goto(r, Idle)
    /\ UNCHANGED <<entry, dir, file, data, parts, stale, sends, answered, object, touched, twice, late>>

NextToOpen(q) == q.list[Len(q.fds) + 1][1]

(* os.Open of the next part; after the last one the lock is released.      *)
OpenPart(r) ==
    LET q   == at[r]
        ino == file[NextToOpen(q)]
        fds == Append(q.fds, ino)
    IN  /\ q.pc = "open"
        /\ IF ino = None
           THEN mu' = None /\ Goto(r, Idle)
           ELSE IF Len(fds) < Len(q.list)
           THEN UNCHANGED mu /\ Goto(r, [q EXCEPT !.fds = fds])
           ELSE mu' = None /\ Goto(r, [pc |-> "stream", list |-> q.list, fds |-> fds, got |-> <<>>, read |-> 0])
        /\ UNCHANGED <<entry, dir, file, data, parts, stale, sends, answered, object, history, late>>

(* putStream reads the next of the open files.                             *)
StreamPart(r) ==
    LET q == at[r] IN
    /\ q.pc = "stream" /\ q.read < Len(q.fds)
    /\ Goto(r, [q EXCEPT !.got = @ \o data[q.fds[q.read + 1]], !.read = @ + 1])
    /\ UNCHANGED <<upload, sends, answered, object, history, late>>

(* putStream fails and the upload is left in place, or it succeeds and the *)
(* upload is to be removed.  Whether a storage notices a stream shorter    *)
(* than its announced size is up to the storage.                           *)
PutReturns(r) ==
    LET q == at[r] IN
    /\ q.pc = "stream"
    /\ \/ Goto(r, Idle) /\ UNCHANGED object
       \/ /\ q.read = Len(q.fds)
          /\ object' = [content |-> q.got, list |-> q.list, shared |-> twice \cup resent]
          /\ Goto(r, [pc |-> "remove"])
    /\ UNCHANGED <<upload, sends, answered, history, late>>
-----------------------------------------------------------------------------
(* removeUpload: the entry, the files, the directory.                      *)

AbortMultipartUpload(r) ==
    /\ at[r].pc = "idle"
    /\ Goto(r, [pc |-> "remove"])
    /\ UNCHANGED <<upload, sends, answered, object, history, late>>

LoadAndDelete(a) ==
    /\ at[a].pc = "remove"
    /\ IF entry = "live" THEN entry' = "removed" /\ Goto(a, [pc |-> "files"])
                         ELSE UNCHANGED entry /\ Goto(a, Idle)
    /\ UNCHANGED <<dir, file, data, parts, mu, stale, sends, answered, object, history, late>>

RemoveFiles(a) ==
    /\ at[a].pc = "files"
    /\ file' = [p \in PartNumbers |-> None]
    /\ Goto(a, [pc |-> "dir"])
    /\ UNCHANGED <<entry, dir, data, parts, mu, stale, sends, answered, object, history, late>>

(* A variant of Emptied: nothing but the files is removed.                 *)
EmptiedSlip == FALSE

Emptied == \A p \in PartNumbers : file[p] = None

RemoveDir(a) ==
    /\ at[a].pc = "dir"
    /\ dir' = (dir /\ ~Emptied)
    /\ Goto(a, Idle)
    /\ UNCHANGED <<entry, file, data, parts, mu, stale, sends, answered, object, history, late>>

(* A variant of Reapable: only uploads without parts are given up.         *)
ReapableSlip == stale /\ \A p \in PartNumbers : parts[p] = None

Reapable == stale

(* reapExpired: the decision is taken under mu, the removal follows.       *)
ReapExpired ==
    /\ at[Reaper].pc = "idle" /\ entry = "live" /\ mu = None /\ Reapable
    /\ Goto(Reaper, [pc |-> "remove"])
    /\ UNCHANGED <<upload, sends, answered, object, history, late>>

(* The TTL passes since lastActivity.                                      *)
Age ==
    /\ entry = "live" /\ ~stale
    /\ stale' = TRUE
    /\ UNCHANGED <<entry, dir, file, data, parts, mu, at, sends, answered, object, history, late>>

(* The server dies and starts again: the uploads are forgotten, and        *)
(* cleanupStaleDirs removes the directory if it is old enough.             *)
Restart ==
    /\ entry \in {"live", "removed"} /\ ~late
    /\ entry' = "removed" /\ late' = TRUE
    /\ at' = [a \in Actors |-> Idle] /\ mu' = None
    /\ \/ dir' = FALSE /\ file' = [p \in PartNumbers |-> None]
       \/ UNCHANGED <<dir, file>>
    /\ UNCHANGED <<data, parts, stale, sends, answered, object, history>>
-----------------------------------------------------------------------------
Removal(a) == LoadAndDelete(a) \/ RemoveFiles(a) \/ RemoveDir(a)

Handler(r) ==
    \/ CreateFile(r) \/ WriteCell(r) \/ FailPart(r) \/ RecordPart(r)
    \/ ValidateParts(r) \/ OpenPart(r) \/ StreamPart(r) \/ PutReturns(r)

Request(r) == LoadUpload(r) \/ LoadCompletion(r) \/ AbortMultipartUpload(r)

Next ==
    \/ CreateMultipartUpload \/ ReapExpired \/ Age \/ Restart
    \/ \E r \in Reqs : Request(r) \/ Handler(r)
    \/ \E a \in Actors : Removal(a)

Spec == Init /\ [][Next]_vars

(* Handlers return, time passes, the reaper's ticker keeps firing, and a    *)
(* goroutine that waits for state.mu gets it in the end (sync.Mutex).      *)
FairSpec ==
    /\ Spec
    /\ \A r \in Reqs : WF_vars(Handler(r))
    /\ \A a \in Actors : WF_vars(Removal(a))
    /\ SF_vars(ReapExpired) /\ WF_vars(Age)
-----------------------------------------------------------------------------
(* The object is the parts its request listed, whole, with the etags it    *)
(* listed.                                                                 *)
Assembled ==
    LET l == object.list IN
    /\ Len(object.content) = Len(l) * BodyLen
    /\ \A i \in DOMAIN l, j \in 1 .. BodyLen :
          object.content[(i - 1) * BodyLen + j] = l[i][2][j]

(* "Part ordering and etags are validated against the parts actually       *)
(* received": a stored object lists parts that were received, in the order *)
(* of their numbers, and it is those parts, unless one of them was written *)
(* by two requests at once or while it was being completed                 *)
(* (CompleteMultipartUpload).                                              *)
ObjectMatches ==
    object # None =>
       LET l == object.list IN
       /\ \A i \in 1 .. Len(l) - 1 : l[i][1] < l[i + 1][1]
       /\ \A i \in DOMAIN l : \E b \in Bodies : l[i][2] = Body(b)
       /\ Listed(l) \cap object.shared = {} => Assembled

(* The same of every object, as the comment has it.  It does not hold.     *)
ObjectAlwaysMatches == object # None => Assembled

(* A part that is recorded is on disk as it was received, unless a later   *)
(* request has begun to write it again or two requests wrote it at once:   *)
(* requests for other parts, completions, the reaper and failures never    *)
(* touch it (UploadPart).                                                  *)
PartIntact ==
    entry = "live" =>
       \A p \in PartNumbers \ (touched \cup twice) :
          parts[p] # None => file[p] # None /\ data[file[p]] = parts[p]

(* The directory of an upload that can still be looked up exists: the      *)
(* entry goes before the files (removeUpload).                             *)
DirOutlivesEntry == entry = "live" => dir

Removing(a) == at[a].pc \in {"files", "dir"}

(* The directory of an upload goes with it: it stays behind only when a    *)
(* part request that had looked the upload up creates a file in between,   *)
(* or when the server died (removeUpload).                                 *)
DirReclaimed ==
    entry = "removed" /\ dir => late \/ \E a \in Actors : Removing(a)

(* "the reaper drops uploads inactive for longer than the TTL": every      *)
(* upload ends, whatever its client does.                                  *)
UploadEnds == entry = "live" ~> entry = "removed"

(* "multipartPart records a single uploaded part on disk."                 *)
PartsOnDisk ==
    entry = "live" => \A p \in PartNumbers : parts[p] # None => file[p] # None \/ \E r \in Reqs : Uploading(r)

(* "Hold the lock until the part files are opened so an abort racing with  *)
(* complete cannot delete them out from under us."                         *)
OpensWhatItValidated ==
    \A r \in Reqs : at[r].pc = "open" /\ touched = {} => file[NextToOpen(at[r])] # None

(* reapExpired "is safe to call concurrently with UploadPart": an upload   *)
(* the reaper removes has had no part for as long as the TTL.              *)
ReapedWasIdle == [][at[Reaper].pc = "remove" /\ entry = "live" /\ entry' = "removed"
                       /\ at'[Reaper].pc = "files" => stale]_vars

(* Every variable keeps its type.                                          *)
TypeOK ==
    /\ entry \in {"new", "live", "removed"}
    /\ dir \in BOOLEAN /\ stale \in BOOLEAN /\ late \in BOOLEAN
    /\ Len(data) <= MaxSends /\ \A i \in DOMAIN data : Len(data[i]) <= BodyLen
    /\ \A p \in PartNumbers : file[p] \in {None} \cup DOMAIN data
    /\ mu \in Reqs \cup {None}
    /\ sends \in 0 .. MaxSends
    /\ touched \cup twice \cup resent \subseteq PartNumbers
=============================================================================
