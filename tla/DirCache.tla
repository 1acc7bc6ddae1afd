------------------------------ MODULE DirCache ------------------------------
(***************************************************************************)
(* The file operations of internal/op/fs.go on one storage and the caches  *)
(* of internal/op/cache.go: directory listings and links.  An operation    *)
(* looks the object up, calls the driver and then updates the caches; a    *)
(* list or a link asks the driver and then fills its cache.  Requests      *)
(* interleave between these steps, and entries expire at any time.         *)
(*                                                                         *)
(* The tree has two levels: directories and files in the root, files in    *)
(* the directories.  A file is the number of the upload that wrote it.     *)
(* The driver implements Getter and returns no new objects, so that the    *)
(* caches get objects with the Temp mask; it refuses to rename, move or    *)
(* copy onto a name that is taken.  A caller that joins a list or a link   *)
(* under way (singleflight) changes nothing and is left out; a lookup is   *)
(* one step with the driver's answer, and so are the calls of one cache    *)
(* update.                                                                 *)
(***************************************************************************)
EXTENDS Naturals, Sequences

CONSTANTS DirNames, FileNames, \* the names clients use
          Tmp(_),    \* the name with ".openlist_to_delete"
          Reqs,      \* the concurrent requests
          Kinds,     \* the operations clients ask for
          Faults,    \* the operations of the driver that may fail, "get" for a lookup
          NoOverwriteUpload, \* the driver's setting
          MaxOps,    \* bound: requests that write
          MaxFills,  \* bound: lists and links that ask the driver
          Dir, None

(* Names of directories, of files and of files set aside are different.    *)
ASSUME DirCacheAssumption ==
    /\ DirNames # {} /\ DirNames \cap FileNames = {}
    /\ \A f \in FileNames : /\ Tmp(f) \notin DirNames \cup FileNames
                            /\ \A g \in FileNames : Tmp(f) = Tmp(g) => f = g
    /\ Dir # None /\ {Dir, None} \cap Nat = {}

VARIABLES
    disk,    \* the storage: per path, Dir, a file or None
    listing, \* Cache.dirCache: per directory, its entries
    link,    \* Cache.linkCache: per file, the file its link leads to
    req,     \* per request: its local state
    ops,     \* requests that write, so far
    fills,   \* lists and links that ask the driver, so far
    want,    \* the storage without the files that uploads set aside
    over,    \* cache entries that two writes, or a write and the fill, overlapped on
    mixed,   \* files of two writes that have overlapped on a file, or of one that took such a file on
    orphan,  \* cache entries under a directory that went
    stranded \* files of which an upload left the old one set aside, as the driver failed

caches == <<listing, link>>
ghosts == <<want, over, mixed, orphan, stranded>>
vars == <<disk, caches, req, ops, fills, ghosts>>
-----------------------------------------------------------------------------
Root == <<>>

Dirs == {Root} \cup {<<d>> : d \in DirNames}

Files == {<<f>> : f \in FileNames} \cup DirNames \X FileNames

Parent(p) == IF Len(p) = 2 THEN <<p[1]>> ELSE Root

TmpOf(p) == IF Len(p) = 2 THEN <<p[1], Tmp(p[2])>> ELSE <<Tmp(p[1])>>

AllFiles == Files \cup {TmpOf(p) : p \in Files}

Paths == (Dirs \ {Root}) \cup AllFiles

Under(a, p) == p = a \/ (Len(p) = 2 /\ Parent(p) = a)

Empty == 0 \* a file of size 0

Kids(k) == {p \in Paths : Parent(p) = k /\ disk[p] # None}

IsDir(k) == k # Root => disk[k] = Dir

Cached(k) == listing[k] # None

Entry(p, obj, temp) == [p |-> p, obj |-> obj, temp |-> temp]

Named(k, p) == {e \in listing[k] : e.p = p}

(* The keys of both caches that are set.                                   *)
Keys(dirs, links) == {k \in Dirs : dirs[k] # None} \cup {p \in Files : links[p] # None}

(* The directory there is at first.                                        *)
Home == CHOOSE k \in Dirs : k # Root

Idle == [pc |-> "idle"]

Init ==
    /\ disk = [p \in Paths |-> IF p = Home THEN Dir
                              ELSE IF p \in Files /\ Parent(p) \in {Root, Home} THEN 1 ELSE None]
    /\ listing = [k \in Dirs |-> None]
    /\ link = [p \in Files |-> None]
    /\ req = [r \in Reqs |-> Idle]
    /\ ops = 1 /\ fills = 0
    /\ want = disk
    /\ over = {} /\ mixed = {} /\ orphan = {} /\ stranded = {}

(* Get: the cached listing of the parent, a Temp object only where the     *)
(* caller accepts it, or else the driver.                                  *)
Get(p, excludeTemp) ==
    LET hits == IF p # Root /\ Cached(Parent(p)) THEN {e \in Named(Parent(p), p) : ~(excludeTemp /\ e.temp)} ELSE {}
    IN  IF p = Root THEN Dir
        ELSE IF hits # {} THEN (CHOOSE e \in hits : TRUE).obj
        ELSE disk[p]
-----------------------------------------------------------------------------
(* A call of MakeDir, Remove, Rename, Move, Copy or the upload of Put or   *)
(* PutURL: its path and the path it leads to.                              *)
Op(kind, p, q) == [kind |-> kind, p |-> p, q |-> q]

(* The keys of both caches whose content a call changes.                   *)
Touches(op) ==
    ({Parent(op.p), Parent(op.q), op.p, op.q} \cap Dirs)
    \cup {x \in Files : Under(op.p, x) \/ Under(op.q, x) \/ TmpOf(x) \in {op.p, op.q}}

TouchesAll(todo) == UNION {Touches(todo[i]) : i \in DOMAIN todo}

Writing(r) == IF req[r].pc \in {"lookup", "driver", "cache"} THEN TouchesAll(req[r].todo) ELSE {}

Filling(r) == IF req[r].pc \in {"fill", "setlink"} THEN {req[r].key} ELSE {}

MakeParent(p) == IF Parent(p) = Root THEN <<>> ELSE <<Op("mkdir", Parent(p), Parent(p))>>

(* PutURL is refused where there is a file, also a Temp one.               *)
PutURLOps(p) == MakeParent(p) \o <<Op("puturl", p, p)>>

(* Put: an empty old file is removed; where the driver cannot overwrite,   *)
(* another one is set aside (the upload then leads to its new name).  The  *)
(* directory is made if need be.                                           *)
PutOps(p) ==
    LET old == Get(p, TRUE)
        aside == NoOverwriteUpload /\ old \notin {None, Empty}
    IN  (IF old = Empty THEN <<Op("remove", p, p)>>
         ELSE IF aside THEN <<Op("rename", p, TmpOf(p))>> ELSE <<>>)
        \o MakeParent(p) \o <<Op("put", p, IF aside THEN TmpOf(p) ELSE p)>>

Requests ==
    {<<Op("mkdir", k, k)>> : k \in Dirs \ {Root}}
    \cup {<<Op("remove", p, p)>> : p \in Files \cup (Dirs \ {Root})}
    \cup {<<Op("rename", w[1], w[2])>> : w \in {v \in (Dirs \ {Root}) \X (Dirs \ {Root}) : v[1] # v[2]}}
    \cup {<<Op(w[3], w[1], w[2])>> : w \in {v \in Files \X Files \X {"move", "copy"} :
                     Parent(v[1]) # Parent(v[2]) /\ v[1][Len(v[1])] = v[2][Len(v[2])]}}
    \cup {PutOps(p) : p \in Files} \cup {PutURLOps(p) : p \in {x \in Files : Get(x, FALSE) = None}}

Start(r) ==
    /\ req[r].pc = "idle" /\ ops <= MaxOps
    /\ ops' = ops + 1
    /\ \E todo \in Requests, v \in {ops', Empty} :
       LET T == TouchesAll(todo)
           Mixed == {k \in T : \E s \in Reqs \ {r} : k \in Writing(s)}
       IN  /\ todo[Len(todo)].kind \in Kinds
           /\ v = Empty => todo[Len(todo)].kind = "put"
           /\ req' = [s \in Reqs |->
                 IF s = r THEN [pc |-> "lookup", todo |-> todo, v |-> v]
                 ELSE IF Filling(s) \cap T # {} THEN [req[s] EXCEPT !.over = TRUE] ELSE req[s]]
           /\ over' = over \cup (Mixed \cap Keys(listing, link))
           /\ mixed' = mixed \cup (Files \cap UNION {T \cup Writing(s) : s \in {q \in Reqs \ {r} : T \cap Writing(q) \cap Files # {}}})
                            \cup (IF T \cap mixed = {} THEN {} ELSE T \cap Files)
    /\ UNCHANGED <<disk, caches, fills, want, orphan, stranded>>

Goto(r, local) == req' = [req EXCEPT ![r] = local]

(* The next call of a request, or its end.                                 *)
Advance(r, todo) == Goto(r, IF todo = <<>> THEN Idle ELSE [pc |-> "lookup", todo |-> todo, v |-> req[r].v])

(* What a call finds before it goes to the driver: a directory that exists *)
(* need not be made, a missing object need not be removed; another missing *)
(* object is an error, which ends the request, also in the middle of Put.  *)
MakeDirFinds(op) == IF Get(op.p, FALSE) = None THEN "driver" ELSE "done"

RemoveFinds(op) == IF Get(op.p, TRUE) = None THEN "done" ELSE "driver"

RenameFinds(op) == IF Get(op.p, TRUE) = None THEN "error" ELSE "driver"

MoveFinds(op) == IF None \in {Get(op.p, TRUE), Get(Parent(op.q), TRUE)} THEN "error" ELSE "driver"

CopyFinds(op) == IF None \in {Get(op.p, TRUE), Get(Parent(op.q), TRUE)} THEN "error" ELSE "driver"

PutFinds(op) == IF Get(Parent(op.p), TRUE) = None THEN "error" ELSE "driver"

Finds(op) ==
    CASE op.kind = "mkdir"  -> MakeDirFinds(op)
      [] op.kind = "remove" -> RemoveFinds(op)
      [] op.kind = "rename" -> RenameFinds(op)
      [] op.kind = "move"   -> MoveFinds(op)
      [] op.kind = "copy"   -> CopyFinds(op)
      [] OTHER              -> PutFinds(op)

(* A second MakeDir of a path waits for the first one (mkdirG).            *)
Alone(op) == op.kind = "mkdir" => \A s \in Reqs : req[s].pc \in {"driver", "cache"} => Head(req[s].todo) # op

Lookup(r) ==
    /\ req[r].pc = "lookup"
    /\ LET op == Head(req[r].todo) IN
       /\ Alone(op)
       /\ \/ /\ Finds(op) = "driver"
             /\ Goto(r, [pc |-> "driver", todo |-> req[r].todo, v |-> req[r].v, obj |-> Get(op.p, TRUE)])
          \/ Finds(op) = "done" /\ Advance(r, Tail(req[r].todo))
          \/ Finds(op) = "error" /\ Goto(r, Idle)
    /\ UNCHANGED <<disk, caches, ops, fills, ghosts>>

(* The file whose old content stays aside when Put ends here: as its       *)
(* directory is looked up or made, as the old file is renamed back, or as  *)
(* it is removed.                                                          *)
Strands(todo) ==
    LET op == Head(todo) IN
    {p \in Files : \/ op.kind \in {"mkdir", "put"} /\ todo[Len(todo)].q = TmpOf(p)
                   \/ op.kind \in {"rename", "remove"} /\ op.p = TmpOf(p)}

(* A lookup that the driver does not answer ends the request.              *)
LookupFails(r) ==
    /\ req[r].pc = "lookup" /\ "get" \in Faults
    /\ Goto(r, Idle)
    /\ stranded' = stranded \cup Strands(req[r].todo)
    /\ UNCHANGED <<disk, caches, ops, fills, want, over, mixed, orphan>>

(* What the driver accepts.                                                *)
Accepts(op) ==
    /\ op.kind \in {"remove", "rename", "move", "copy"} => disk[op.p] # None
    /\ op.kind \in {"rename", "move", "copy"} => disk[op.q] = None /\ IsDir(Parent(op.q))
    /\ op.kind \in {"put", "puturl"} => IsDir(Parent(op.p)) /\ (disk[op.p] = None \/ ~NoOverwriteUpload)

(* What a call does to a tree t.                                           *)
Effect(t, op, v) ==
    LET from(x) == IF x = op.q THEN op.p ELSE <<op.p[1], x[2]>>
    IN  [x \in Paths |->
            IF op.kind \in {"mkdir", "put", "puturl"} THEN (IF x # op.p THEN t[x] ELSE IF op.kind = "mkdir" THEN Dir ELSE v)
            ELSE IF op.kind \in {"rename", "move", "copy"} /\ Under(op.q, x) THEN t[from(x)]
            ELSE IF op.kind # "copy" /\ Under(op.p, x) THEN None
            ELSE t[x]]

SetAside(op) == op.kind \in {"rename", "remove"} /\ {op.p, op.q} \cap (AllFiles \ Files) # {}

(* The files that a directory takes along when it is renamed.              *)
Carried(op) ==
    {x \in Files : op.kind = "rename" /\ op.q \in Dirs /\ Under(op.q, x) /\ <<op.p[1], x[2]>> \in stranded}

Driver(r) ==
    /\ req[r].pc = "driver"
    /\ LET op == Head(req[r].todo) IN
       /\ Accepts(op)
       /\ disk' = Effect(disk, op, req[r].v)
       /\ want' = IF SetAside(op) THEN want ELSE Effect(want, op, req[r].v)
       /\ Goto(r, [req[r] EXCEPT !.pc = "cache"])
       /\ stranded' = stranded \cup Carried(op)
    /\ UNCHANGED <<caches, ops, fills, over, mixed, orphan>>

DriverFailsSlip(r) ==
    /\ req[r].pc = "driver"
    /\ ~Accepts(Head(req[r].todo)) \/ Head(req[r].todo).kind \in Faults
    /\ Advance(r, <<>>)
    /\ UNCHANGED <<disk, caches, ops, fills, ghosts>>

(* An upload that failed renames the old file back; any other error ends   *)
(* the request.  A call that fails has changed nothing.                    *)
DriverFails(r) ==
    /\ req[r].pc = "driver"
    /\ LET op == Head(req[r].todo) IN
       /\ ~Accepts(op) \/ op.kind \in Faults
       /\ Advance(r, IF op.kind = "put" /\ op.q # op.p THEN <<Op("rename", op.q, op.p)>> ELSE <<>>)
       /\ stranded' = IF Accepts(op) /\ op.kind # "put" THEN stranded \cup Strands(req[r].todo) ELSE stranded
    /\ UNCHANGED <<disk, caches, ops, fills, want, over, mixed, orphan>>
-----------------------------------------------------------------------------
(* RemoveObject and UpdateObject act on the first object of the name; the  *)
(* objects from the driver come before those that were added.              *)
First(k, p) == CHOOSE e \in Named(k, p) : (\E d \in Named(k, p) : ~d.temp) => ~e.temp

RemoveObject(k, p) == IF Named(k, p) = {} THEN listing[k] ELSE listing[k] \ {First(k, p)}

UpdateObjectSlip(k, p, new) == listing[k] \cup {new}

UpdateObject(k, p, new) == RemoveObject(k, p) \cup {new}

(* deleteDirectoryTree: the listings that go, as far as they are cached,   *)
(* and the links of the files in them.                                     *)
Tree(k) == IF Cached(k) THEN {k} \cup {e.p : e \in {d \in listing[k] : d.obj = Dir /\ Cached(d.p)}} ELSE {}

TreeLinks(k) == {e.p : e \in {d \in UNION {listing[j] : j \in Tree(k)} : d.obj # Dir}}

(* The cached listing of k after a call that found obj: MakeDir adds its   *)
(* directory without a search, the others replace or remove by name.       *)
AfterMakeDir(k, op) == IF k = Parent(op.p) THEN listing[k] \cup {Entry(op.p, Dir, TRUE)} ELSE listing[k]

AfterRemove(k, op) == IF k = Parent(op.p) THEN RemoveObject(k, op.p) ELSE listing[k]

AfterRename(k, op, obj) == IF k = Parent(op.p) THEN UpdateObject(k, op.p, Entry(op.q, obj, TRUE)) ELSE listing[k]

AfterCopy(k, op, obj) == IF k = Parent(op.q) THEN UpdateObject(k, op.q, Entry(op.q, obj, TRUE)) ELSE listing[k]

AfterMove(k, op, obj) ==
    IF k = Parent(op.p) THEN RemoveObject(k, op.p)
    ELSE IF k = Parent(op.q) THEN UpdateObject(k, op.q, Entry(op.q, obj, TRUE))
    ELSE listing[k]

AfterPut(k, op, v) == IF k = Parent(op.p) THEN UpdateObject(k, op.p, Entry(op.p, v, TRUE)) ELSE listing[k]

AfterPutURL(k, op) == IF k = Parent(op.p) THEN UpdateObject(k, op.p, Entry(op.p, Empty, TRUE)) ELSE listing[k]

Updated(k, op, obj, v) ==
    CASE ~Cached(k) -> None
      [] Cached(k) /\ op.kind = "mkdir"  -> AfterMakeDir(k, op)
      [] Cached(k) /\ op.kind = "remove" -> AfterRemove(k, op)
      [] Cached(k) /\ op.kind = "rename" -> AfterRename(k, op, obj)
      [] Cached(k) /\ op.kind = "copy"   -> AfterCopy(k, op, obj)
      [] Cached(k) /\ op.kind = "move"   -> AfterMove(k, op, obj)
      [] Cached(k) /\ op.kind = "put"    -> AfterPut(k, op, v)
      [] OTHER                           -> AfterPutURL(k, op)

UnlinkedSlip(op) == {op.q}

(* The links a call deletes: of the files it names that it changes.        *)
Unlinked(op) ==
    IF op.kind = "copy" THEN {op.q}
    ELSE IF op.kind \in {"put", "puturl"} THEN {op.p}
    ELSE {op.p, op.q}

(* The subtree goes only if the parent's listing is cached.                *)
Forgotten(op) == IF op.p \in Dirs /\ op.kind \in {"remove", "rename"} /\ Cached(Parent(op.p)) THEN Tree(op.p) ELSE {}

Update(r) ==
    /\ req[r].pc = "cache"
    /\ LET op == Head(req[r].todo)
           T == Forgotten(op)
           L == Unlinked(op) \cup (IF T = {} THEN {} ELSE TreeLinks(op.p))
           left == Keys(listing', link')
       IN  /\ listing' = [k \in Dirs |-> IF k \in T THEN None ELSE Updated(k, op, req[r].obj, req[r].v)]
           /\ link' = [p \in Files |-> IF p \in L THEN None ELSE link[p]]
           /\ orphan' = IF op.p \in Dirs /\ op.kind \in {"remove", "rename"}
                        THEN {k \in left \ {Root} : k \in orphan \/ Under(op.p, k)} ELSE orphan \cap left
           /\ over' = over \cap left
           /\ Advance(r, IF op.kind = "put" /\ op.q # op.p THEN <<Op("remove", op.q, op.q)>> ELSE Tail(req[r].todo))
    /\ UNCHANGED <<disk, ops, fills, want, mixed, stranded>>
-----------------------------------------------------------------------------
(* list, without a cached listing or with Refresh, one at a time per       *)
(* directory (listG): the driver's listing, then the cache.                *)
List(r) ==
    /\ req[r].pc = "idle" /\ fills < MaxFills
    /\ fills' = fills + 1
    /\ \E k \in Dirs :
       /\ \A s \in Reqs : k \notin Filling(s)
       /\ Get(k, TRUE) = Dir /\ IsDir(k)
       /\ Goto(r, [pc |-> "fill", key |-> k, over |-> \E s \in Reqs : k \in Writing(s),
                   got |-> {Entry(p, disk[p], FALSE) : p \in Kids(k)}])
    /\ UNCHANGED <<disk, caches, ops, ghosts>>

(* What the fill of an entry means for the ghosts.                         *)
Mark(key, overlapped) ==
    /\ over' = (IF overlapped THEN over \cup {key} ELSE over \ {key}) \cap Keys(listing', link')
    /\ orphan' = (orphan \ {key}) \cap Keys(listing', link')

Fill(r) ==
    /\ req[r].pc = "fill"
    /\ LET k == req[r].key IN
       /\ IF req[r].got # {}
          THEN listing' = [listing EXCEPT ![k] = req[r].got] /\ UNCHANGED link
          ELSE /\ listing' = [j \in Dirs |-> IF j \in Tree(k) THEN None ELSE listing[j]]
               /\ link' = [p \in Files |-> IF p \in TreeLinks(k) THEN None ELSE link[p]]
       /\ Mark(k, req[r].over)
    /\ Goto(r, Idle)
    /\ UNCHANGED <<disk, ops, fills, want, mixed, stranded>>

(* Link, without a cached link, one at a time per file (linkG).            *)
Link(r) ==
    /\ req[r].pc = "idle" /\ fills < MaxFills
    /\ fills' = fills + 1
    /\ \E p \in Files :
       /\ link[p] = None /\ \A s \in Reqs : p \notin Filling(s)
       /\ Get(p, TRUE) # None /\ disk[p] # None
       /\ Goto(r, [pc |-> "setlink", key |-> p, over |-> \E s \in Reqs : p \in Writing(s), got |-> disk[p]])
    /\ UNCHANGED <<disk, caches, ops, ghosts>>

SetLink(r) ==
    /\ req[r].pc = "setlink"
    /\ link' = [link EXCEPT ![req[r].key] = req[r].got]
    /\ UNCHANGED listing
    /\ Mark(req[r].key, req[r].over)
    /\ Goto(r, Idle)
    /\ UNCHANGED <<disk, ops, fills, want, mixed, stranded>>

Expire(k) ==
    /\ Cached(k)
    /\ listing' = [listing EXCEPT ![k] = None]
    /\ orphan' = orphan \ {k} /\ over' = over \ {k}
    /\ UNCHANGED <<disk, link, req, ops, fills, want, mixed, stranded>>

ExpireLink(p) ==
    /\ link[p] # None
    /\ link' = [link EXCEPT ![p] = None]
    /\ orphan' = orphan \ {p} /\ over' = over \ {p}
    /\ UNCHANGED <<disk, listing, req, ops, fills, want, mixed, stranded>>

Step(r) == Lookup(r) \/ LookupFails(r) \/ Driver(r) \/ DriverFails(r) \/ Update(r) \/ Fill(r) \/ SetLink(r)

Next ==
    \/ \E r \in Reqs : Start(r) \/ List(r) \/ Link(r) \/ Step(r)
    \/ \E k \in Dirs : Expire(k)
    \/ \E p \in Files : ExpireLink(p)

Spec == Init /\ [][Next]_vars

(* Requests run on, and every cache entry has a time to live.              *)
FairSpec ==
    /\ Spec
    /\ \A r \in Reqs : WF_vars(Step(r))
    /\ \A k \in Dirs : WF_vars(Expire(k))
    /\ \A p \in Files : WF_vars(ExpireLink(p))
-----------------------------------------------------------------------------
Quiet(key) == \A r \in Reqs : key \notin Writing(r)

(* FreshListing: a cached listing that no write was under way with twice   *)
(* over, or while it was filled, names the children of the directory, each *)
(* of them once, after the update of the last write.  An update after the  *)
(* driver's call that forgot a name or the subtree would break it.         *)
FreshListing ==
    \A k \in Dirs : (Cached(k) /\ Quiet(k) /\ k \notin over \cup orphan) =>
        /\ {e.p : e \in listing[k]} = Kids(k)
        /\ \A d, e \in listing[k] : d.p = e.p => d = e

(* FreshLink: the same of a link: it leads to the file that is there, also *)
(* after Put, Move, Copy and Remove of the file.                           *)
FreshLink ==
    \A p \in Files : (link[p] # None /\ Quiet(p) /\ p \notin over \cup orphan) => link[p] = disk[p]

(* PutAtomic: once Put returns, the file is the one it uploaded or, when   *)
(* the upload failed, the old one under its own name, unless another write *)
(* was under way; nothing is left under the temporary name.  Where the     *)
(* driver fails again as Put tidies up, or in between ("failed recover old *)
(* obj"), the old file is not lost: it is under its own name or, with      *)
(* nothing there, under the temporary one.                                 *)
PutAtomic ==
    \A p \in Files : (Quiet(p) /\ p \notin mixed) =>
        \/ disk[p] = want[p] /\ (p \in stranded \/ disk[TmpOf(p)] = None)
        \/ p \in stranded /\ disk[p] = None /\ disk[TmpOf(p)] = want[p]

(* RemovedTree: the comment above removeDirectoryObject says that the      *)
(* listings of a directory that is removed go with it.  They stay when the *)
(* listing of the parent is not cached.                                    *)
RemovedTree ==
    \A k \in Dirs : (Cached(k) /\ Quiet(k) /\ k \notin over) => IsDir(k)

(* Settles: whatever overlapped, the caches describe the storage in the    *)
(* end: what is stale expires and nothing puts it back.                    *)
Settles ==
    <>[](/\ \A k \in Dirs : Cached(k) => {e.p : e \in listing[k]} = Kids(k)
         /\ \A p \in Files : link[p] # None => link[p] = disk[p])

TypeOK ==
    /\ disk \in [Paths -> Nat \cup {Dir, None}] /\ want \in [Paths -> Nat \cup {Dir, None}]
    /\ \A k \in Dirs : Cached(k) => \A e \in listing[k] :
          /\ e.p \in Paths /\ Parent(e.p) = k /\ e.temp \in BOOLEAN
          /\ (e.p \in Dirs) <=> (e.obj = Dir)
    /\ \A p \in Files : link[p] \in Nat \cup {None}
    /\ over \subseteq Dirs \cup Files /\ mixed \subseteq Files /\ orphan \subseteq Dirs \cup Files
    /\ stranded \subseteq Files
    /\ \A r \in Reqs : req[r].pc \in {"idle", "lookup", "driver", "cache", "fill", "setlink"}
    /\ ops \in 1 .. MaxOps + 1 /\ fills \in 0 .. MaxFills
=============================================================================
