# A TLA+ model of PowerList

PowerList is a file list server: it mounts storages of many providers and serves
them over HTTP, WebDAV, S3, FTP and SFTP. This directory models the parts of it
in which several goroutines share state and a mistake costs data: uploads in
chunks, from the web client and over S3, parallel downloads from one source or
several, copying and moving between storages, the locks of WebDAV, and the caches
of listings and links.

## Inventory

State, operations and hard behaviours of the parts with state of their own.
"Module" is the module that models the part; a dash marks parts within reach
that are not modelled.

| Part | State | Operations | What is hard | Module |
|---|---|---|---|---|
| Receiving window, `internal/multipart/window.go` | ring file, slot table, read position, CRC table, sticky error, one condition variable | WriteChunk, Read, CloseWithError, Snapshot | file I/O outside the lock; one condition variable for reader, writers and timers; chunks out of order, twice, and after the close | `Window`, `ChunkStream` |
| Upload sessions, `internal/multipart/session.go` | two maps, per session a state, an attempt number, the current window, CRCs of the last attempt | Init, Chunk, Complete, Abort, expiry, the pipeline goroutine | two locks, taken one after the other; a session used after it was removed; attempts that end while requests run | `Sessions` |
| Parallel downloader, `internal/net/request.go` | chunk channel, ring of buffers, connection counters, limit shared by all downloads | Download, Read, Close, workers | channel sends under the mutex; workers that end, hand back, resume; close during any of it | `Downloader` |
| Copy and move, `internal/fs/copy_move.go`, `internal/task_group` | tasks, per destination directory a counter, a success flag and paths to remove | transfer, Run, report, SetRetry, HookAndRemove | tasks create tasks of the same group; two requests share a group; counters are lost in a restart, tasks are not | `Transfer` |
| Directory and link caches, `internal/op/fs.go`, `internal/op/cache.go`, `internal/cache`, `pkg/singleflight` | caches with expiry, calls under way | List, Get, Link and the writes | a listing read before a write and cached after it; a file set aside for an upload that fails | `DirCache` |
| Mounted storages, `internal/op/storage.go` | map of drivers, database rows | create, update, enable, disable, delete | several steps over map, driver and database without a common lock | - |
| Multi-source reader, `internal/stream/util.go` | result slots, semaphore, read-ahead gate | scheduler, workers, Read, Close | lossy notification; wait group extended while waited on | `MultiSource` |
| S3 multipart uploads, `server/s3/multipart.go` | part files, part table | create, upload, complete, abort, reaper | uploads of one part at once; abort under a completion | `S3Multipart` |
| WebDAV locks, `server/webdav/lock.go`, `webdav.go` | lock tree with reference counts, expiry heap | Create, Confirm, Refresh, Unlock; LOCK, UNLOCK, claims of the writing methods | locks held by a request while they expire; times out of order; two locks claimed one after the other | `WebDAVLocks` |
| Index build, `internal/search/build.go` | quit channel, queue | BuildIndex, stop, updates | end of one build against the start of the next | - |
| Error group, `pkg/errgroup`; pipe, `pkg/buffer/pipe.go` | tokens, semaphore; one block | Go, Wait; Read, Write, Reset, Close | a token kept after a failure; a lost signal | - |
| Hybrid cache, `internal/hybrid_cache` | memory blocks and a file | AllocBlock, ReadAt, WriteAt, Rewind | reads across the boundary | - |
| 115 leases, `internal/index115/linker_115.go` | table of leases | Touch, Expired, delayed deletion | a lease renewed while its deletion is due | - |
| Registries (users, metas, settings, shares), `internal/op` | read-through caches over the database | get, save, delete | as for the directory cache | - |

How they interact: a handler calls `Sessions`, which owns one `Window` per
attempt and hands it to a driver as the stream to upload. Copy tasks read
through links whose data the downloader or the multi-source reader fetches, and
write through the same upload call. Task groups remove moved sources through
`internal/op`, which also keeps the caches current.

`PROJECT.json` lists the remaining parts (drivers, front ends, database, start-up,
client libraries, helpers) with the reason each is left out: mostly they are
I/O with a remote side that is not in the repository, or hold no state. The
hazards it lists name the source line at which each one bites; those of parts
not modelled carry a note instead of a property.

## Modules

**`Window`** translates `window.go`. Every critical section of `w.mu` is one
action; what the code does unlocked (copying a body into the ring, `ReadAt`,
closing and removing the file) is a separate step, byte by byte where two
goroutines could meet on it. A goroutine in `cond.Wait` is `"parked"`; Broadcast
turns all parked ones to `"woken"`, from where they run the loop body again. The
deadline of a request is a timer goroutine of its own. A byte is its position and
the body it came from; the CRC of a body stands for the body (collisions are left
out). `sink` and `acked` are history: what the driver received and what was
answered with success.

**`ChunkStream`** is what a window promises, without slots, locks or waiting:
each chunk accepted at most once, at most `Slots` ahead of the delivery,
delivered in order from the accepted bodies, nothing accepted after the close.
`Window` implements it under the mapping
`have <- crcs, pos <- readPos, sink <- sink, closed <- (err # None)`.

**`Sessions`** translates `session.go`, one action per critical section of `m.mu`
or `s.mu`. The window appears by what it has received, whether it is open and how
far it has been read, a chunk at a time. All clients use one key (user, path and
size). `Deliver` and `PutReturns` stand for the driver and are external.
`lastActive` is left out: the expiry loop may find any session expired.

**`Downloader`** translates the multi-part path of `request.go`: planning of
chunks, opening of further connections, the workers, resumption of a body that
broke off, hand-back after an error status, the ring of buffers and the reader.
Bytes are their offsets. The remote may answer a request with a body (`"ok"`), a
body that breaks off (`"short"`), another file size (`"mismatch"`), a failed
connection (`"error"`) or an error status (`"status"`). `panic` records a send on
a closed channel.

**`Transfer`** translates `copy_move.go`, `group.go`, `transfer.go` and the part
of `op.Remove` they use. The source has one level of directories. The task
manager is a library and appears as what it does with tasks: it runs them, runs a
failed one again up to `MaxRetry` times before it reports (`Again`), lets the user
retry it after that, and after a restart reloads those it saved. An entry of the
destination is absent, older than the move, cut short, or the file itself. An
upload that fails leaves the destination as it was, makes the directory, or leaves
the file cut short or gone (`CutShort`): the local, SFTP, SMB and FTP drivers write
in place. `broken` is history: the files whose last upload, or the listing of whose
directory, failed with another file in their place.

**`WebDAVLocks`** translates the lock table of `lock.go` and the handlers of
`webdav.go` that use it. Every critical section of `m.mu` is one action, with the
expiry that each begins with. A handler reads the clock before it enters the
section, so the sections see times out of order. A name is the sequence of its
elements; a node is there while its count is not 0 and has a lock while it has a
token. Between claim and release a request is `"active"`: what it does to files is
left out.

**`S3Multipart`** translates `multipart.go` for one upload id. Files are inodes,
because `os.Create` truncates a file another request may have open, and a removed
file stays readable to those who have it open. `os.RemoveAll` is two steps, files
and then directory. A restart forgets the table and keeps the files. Requests for
one part, completions and aborts overlap in every way. `touched`, `twice` and
`resent` are history: the parts being sent again, those that two requests wrote at
once, and those written while a completion that lists them was under way.

**`MultiSource`** translates the multi-source path of `util.go`: the cutting of a
range, the scheduler, the semaphore, the read-ahead window with its channel of one
element, the workers over the sources, Read and Close. One call is one behaviour;
its range and settings are chosen in `Init`. The loop of `computeSubchunks` is an
action, one turn a step; scheduler and Read begin when it is over.

**`DirCache`** translates the operations of `op/fs.go` and the cache updates of
`op/cache.go` on a tree of two levels. An operation is a list of steps (an upload
makes its directory, sets an old file aside and removes it or brings it back), each
of which looks up, calls the driver and updates the caches; other requests come in
between. Entries expire at any time. The driver has `Getter`, returns no new
objects and refuses names that are taken. Every call to it may fail, the lookups
included, and a call that fails changes nothing. `want`, `over`, `mixed` and `orphan`
are history: they say which entries the code cannot be expected to keep current,
because two writes, or a write and the fill, overlapped on them. `stranded` marks
the files for which a step of an upload other than the upload itself failed.

The MC modules only instantiate these for TLC (symmetry sets, functions used as
constants). Operators named `Slip...`, `...Slip` or `...Flip` are deliberate slips of the
definition that follows them. They are not part of any specification: each shows
that some property notices that mistake.

## Runs

`tlc -config <cfg> <module>` in this directory. The instances are small; "states"
is the number of distinct states.

| Run | Config | Instance | States | Shows |
|---|---|---|---|---|
| window_safety | MCWindow | 2 requests, 2 bodies, 5 bytes in chunks of 2, 2 slots | 639,584 | the stream is the file whose CRCs are reported; no wake-up is lost; status answers are exact; `ChunkStream` is implemented |
| window_liveness | MCWindowLive | 2 requests, 3 chunks of one byte, 2 slots | 54,996 | a parked request gets an answer; an arrived frontier chunk is consumed; the ring file goes |
| sessions_refill | MCSessionsRefill | 1 session of 2 chunks, 2 clients, 2 requests at once, 5 in all, 2 attempts | 917,755 | attempts do not overlap; a receiving session has a pipeline; first attempts are not mixed from two files; late duplicates of a finished upload are absorbed |
| sessions_pair | MCSessionsLive | 2 sessions of 1 chunk on one key, 2 clients, 2 requests at once, 3 in all, 1 attempt | 272,588 | a late removal spares the successor; Complete is answered; the pipeline of a killed session ends |
| downloader_safety | MCDownloader | 9 bytes in parts of 4 (chunks of 2, 3 and 4), up to 3 connections, limit 2, 1 resumption of a body, every answer | 3,453,675 | the reader gets the range in order, also from reused buffers; planning agrees with the number of parts; no send on the channel blocks; workers hold slots |
| downloader_liveness | MCDownloaderLive | 5 bytes in parts of 2, 2 connections, no resumption, no error status | 52,095 | every Read returns; closed downloads leave no worker |
| transfer_safety | MCTransfer | directory of 2 files and a file, an older file of one name in the destination, up to 2 requests of 3 kinds, 3 tasks, every fault, 1 restart | 1,846,347 | groups count their tasks; copies take nothing; a file is lost only by a failure that concerns it |
| transfer_liveness | MCTransferLive | the same entries, 2 moves, 6 tasks, 1 automatic retry, no fault | 344,792 | a move takes every file from the source |
| webdav_locks | MCWebDAVLocks | names /, /a and /a/b, 2 requests, 3 tokens, timeouts infinite and 1, time up to 1 | 179,810 | two requests never work on one name; counts fit the locks; held locks stay; no temporary lock is left behind |
| s3_multipart | MCS3Multipart | 2 part numbers, 2 bodies, 2 requests and the reaper, 2 parts sent, a restart | 241,968 | the object is made of the parts asked for; recorded parts keep their bytes; the directory goes with its upload; every upload ends |
| multi_source | MCMultiSource | 6 bytes from 0 or 1, length 5 or open, parts of 2 and 4, window 0 or 2, 2 sources, 2 workers | 214,179 | bytes come in order without gaps; errors have a cause; Read and Close return |
| dir_cache | MCDirCache | 2 directories, 1 file name, 2 requests, 2 writes and 2 fills, every call and lookup may fail | 1,197,110 | listings and links are current where no writes overlapped; a failed upload leaves the old file |

Why the bounds are enough to be interesting: two slots and three chunks make the
ring wrap and leave a short last chunk; two requests at once are what races in
the code need, and the third party (driver, expiry loop or timer) is always there
as well; two attempts are one refill; three chunks over two connections reuse a buffer; a
limit below the number of connections makes the limit bind; one restart loses the
counters of a group once; three names on one path and three tokens give a lock
with a lock below it and one that is refused; two bodies for two part numbers let
a part be sent again with other bytes; parts of 2 and 4 in ranges of 5 and 6 bytes
give both forms of the first subchunk and a cut last one; two writes and two fills
are enough for each to fall between the steps of the other.

They remain bounds: `MaxRequests`, `MaxAttempt`, `MaxTasks`, `MaxRetry`, `MaxRestarts`,
`MaxSends`, `MaxOps`, `MaxFills`, `MaxGen` and `MaxClock` cut behaviours off, so the
liveness results of `Sessions`, `Transfer` and `S3Multipart` hold for finitely many
requests, and longer chains of retries are unexplored. With the three tasks of `transfer_safety` a second
request meets a directory task only where the listing of the directory is cut
short or one of its files has no task yet; `transfer_liveness` has room for all
tasks of both requests, but no faults except a file that another move took before.
Automatic retries and faults together are in `MCTransferMore`. `sessions_pair` has one
attempt, so its results are not about refills.

Further configs pass and are not listed in `PROJECT.json`. `MCSessionsMore`,
`MCDownloaderMore`, `MCTransferMore`, `MCS3MultipartMore` and `MCMultiSourceMore` check
the type invariants and the plainer invariants of these modules on the instances of
their runs: failed sessions have a cause, a parked Read has its signal, payloads end
with their group, the directory of a live upload exists, read-ahead stays in its
window and every worker holds a token. `MCTransferMore` also checks `LossNeedsFailure`
with one automatic retry (7.2 million states, six minutes). `MCDirCacheLive` (one
directory, 1,026,304 states) checks the type invariant of `DirCache` and `Settles`: a cache that writes or
fills have left stale does not stay so. Those of `Window` and `WebDAVLocks` that the
runs leave out are proved, as are `FailureHasCause`, `ReadAheadBounded` and
`SlotsAccounted`.

Deadlock is checked for `Window`. The other systems may stop: a session with no
client, a closed reader and finished tasks have nothing left to do, and the
bounds on requests stop them as well.

### Disagreements between the code and what it says

TLC refutes the following statements of comments and tests of the repository.
None is among the runs of `PROJECT.json`, which all pass; each is reproduced with
the config named here, e.g. `tlc -config MCTransferLoss.cfg MCTransfer` (the module
is the config's name up to its last word, as in `MCSessions`, `MCS3Multipart`).
All are results of the model, read back against the source; none was reproduced in
a running server.

| Config | Property | Statement | What happens |
|---|---|---|---|
| MCSessionsChanged | ChangedNeverStored | `session.go:318` "the re-fill CRC check catches a changed file" | the CRC of a re-sent chunk is compared after the pipeline got it, so the storage may keep the changed file |
| MCSessionsForgotten | ForgottenIsStopped | `session.go:599` "forgets the session immediately" | a Chunk that fetched the session before Abort starts a new attempt in the forgotten session |
| MCSessionsOneLive | OneLiveSession | `session.go:299` "returns the live session" | two Inits at once both create a session for one key |
| MCSessionsOutcome | CompleteHasOutcome | `session.go:537` "waits for the pipeline outcome" | a retry between two sections of Complete makes it report a failure without a cause while the upload runs |
| MCDownloaderLimit | LimitRestored | `request_cancel_test.go:45` "remaining concurrency = %d, want 1" | a slot taken for a further connection is not given back when no worker is started |
| MCDownloaderOverload | ReadReturns | `request.go:458`, the chunk being read is retried first | a handed-back chunk ends every worker that is refused on it; the last one leaves a Read waiting |
| MCDownloaderClose | CloseIsClean | `request.go:292` "when the final reader Close, we interrupt" | a worker sends its refused chunk on the channel Close has closed |
| MCTransferLoss | NoLoss | `transfer.go:95` "Verify directory" | the upload of a file breaks off and leaves it cut short; the verification only looks whether an entry of the name is there, and the source is removed. An older file of the name has the same effect |
| MCWebDAVLocksBase | WritesExclusive | `webdav.go:127` "we create temporary locks that would conflict with another client's locks" | PUT, DELETE, MKCOL and PROPPATCH claim the path before the user's base path is joined to it, the others after, so for a user with a base path two requests work on one file |
| MCS3MultipartOverlap | ObjectAlwaysMatches | `multipart.go:167` "validated against the parts actually received" | a part sent again while its first request is still in its handler truncates the file the first one is reported with; the object then holds bytes of another body |
| MCS3MultipartDisk | PartsOnDisk | `multipart.go:32` "records a single uploaded part on disk" | a repeated part that fails removes the file of the part recorded before |
| MCS3MultipartOpen | OpensWhatItValidated | `multipart.go:205` "an abort racing with complete cannot delete them" | the removal takes no part lock, so it can fall between the validation and the opening of the files |
| MCS3MultipartReap | ReapedWasIdle | `multipart.go:334` "It is safe to call concurrently with UploadPart/Complete/Abort" | a part that arrives after the reaper's check is removed with the upload, although it was answered |
| MCMultiSourceClose | CloseWaited | `util.go:374`, Close cancels the remaining workers and waits for them | the scheduler can start a worker after Close has found none to wait for |
| MCDirCacheTree | RemovedTree | `cache.go:67` "remove all its children from dirCache too" | this happens only if the listing of the parent is cached; otherwise listings of a removed directory stay until they expire |

`downloader_liveness` leaves error statuses out because of what
MCDownloaderOverload and MCDownloaderClose show. The properties of `s3_multipart`
except the parts in `twice` and `resent`, and those of `transfer_safety` the files in
`broken`, because of what MCS3MultipartOverlap and MCTransferLoss show; the
behaviours themselves are in these runs.

Further results about `DirCache` contradict no comment, so they are only stated
here. Two uploads of one name at once can leave the file with the suffix
`.openlist_to_delete` behind. So can one upload: the early returns of `Put` after the
file was set aside (`fs.go:653-660`) do not bring it back, the Rename that brings it
back after a failed upload may fail as well (`fs.go:711`), and so may the Remove after
a successful one (`fs.go:717`). `PutAtomic` says that the old file is not lost then: it
is under its own name or, with nothing there, under the temporary one. An upload
over an empty file removes it first, so a failed one loses it. `PutAtomic` is
therefore about files that are not empty and uploads that do not overlap with
another write to the file.

## Fairness

Goroutines that can run do run: weak fairness on the steps of each. Beyond that
- `Window`: strong fairness of a `ReadAt` that returns bytes (the local file does
  not fail every read), and a driver outside Read reads on or the stream is
  closed, as `op.Put` does when the driver returns;
- `Sessions`: a driver whose stream is closed or read to the end returns;
- `Downloader`: the consumer reads on or closes, and a request repeated for ever
  is answered with a body in the end (strong fairness of `Request(w, "ok")`), an
  assumption on the remote and not on the code;
- `Transfer`: the managers run every task they hold. Nobody has to retry;
- `S3Multipart`: time passes, handlers return, and the reaper gets the mutex of an
  upload that others keep taking (strong fairness; a Go mutex hands itself to a
  waiter that has waited for a millisecond);
- `MultiSource`: requests to a source return, with bytes or an error, and a client
  that has read to the end closes the reader. It may also close before;
- `DirCache` (`MCDirCacheLive`): requests go on and entries expire.

No client has to send anything.

## Proofs

Proved with TLAPS for every value of the constants that satisfies the ASSUME of
the module (sizes and counts positive, `Length > PartSize`, markers distinct from
the values they stand beside). Eight modules hold the proofs. Each gives an
inductive invariant, shows that the initial states have it and that every action
keeps it, and reads the properties off it. TLC checked the conjuncts of each
invariant on the instance of the run before the proof: 639,584 states of `Window`,
917,755 of `Sessions`, 3,453,675 of `Downloader`, 1,846,347 of `Transfer`, 179,810 of
`WebDAVLocks`, 241,968 of `S3Multipart` and 214,179 of `MultiSource`.

**Window** (`WindowProofs`): `TypeOK`, `SlotsInWindow`, `StreamIntact`,
`AckedStored`, `NoLostWakeup`, `OutOfWindowIsAhead` as invariants,
`NoAckAfterClose` as an action property, and the refinement of `ChunkStream`.
None of the safety properties is inductive by itself: that a byte is right when
it is delivered depends on what was in the slot when it was read, on the copy
that filled it, and on no other copy having touched it. The inductive invariant
`IInv` adds what each goroutine may rely on between its critical sections: a
waiting call has copied nothing (`WaitInv`); a copying request owns its slot
alone and has written a prefix of its body, also after a close (`CopyInv`); a
ready slot holds its whole chunk (`ReadyInv`); a closed window has no occupied
slot (`CloseInv`); a chunk read in part is still there (`PartialInv`); a read
under way reads a slot no copy shares (`ReadInv`); what was delivered has a CRC
(`FilledInv`). The arithmetic rests on one fact: two chunks less than `Slots`
apart never share a slot (`SlotInjective`). For `Spec => ImplementsStream` only
`Store`, `ReadCommit` and the close are steps of the stream; all others stutter.
It needs in addition that a chunk with a CRC stays buffered or consumed while the
window is open.

**Sessions** (`SessionsProofs`): the invariants `TypeOK`, `ReceivingHasPipeline`,
`FailureHasCause`, `NoMixedUpload` and the action properties `AttemptsDisjoint`,
`StragglersAbsorbed` and `RemovalSparesSuccessor`. A request carries a session,
an attempt and a chunk over several critical sections, and none of them is looked
at again when it is used. So `IInv` says what a request may carry
(`RequestsCarry`); that a pipeline without a verdict is that of the current
attempt, window and done channel (`RunningIsCurrent`), and the next attempt never
ran (`NextIsUnused`); that success is final (`SuccessStays`); and, for
`NoMixedUpload`, that all who can send a chunk to a first attempt upload one file
(`FirstIsShared`). The last one rests on `HashAssumption`: equal hashes, where
there are hashes, mean equal files.

**Downloader** (`DownloaderProofs`, `DownloaderSlots`): `ChunksTile`, `InOrder`,
`WorkersHoldSlots` and `SendsNeverBlock`. `Plan` says that chunk k starts at
`Offset(k)`; from it the range is used up with the last planned chunk and not
before, by division with remainder and the three cases of the first two sizes.
`DInv` follows a chunk from the queue through the worker that has it into its
buffer of the ring: a buffer holds a prefix of its chunk (`BufsHold`), a queued or
running chunk continues its buffer where the last attempt broke off (`QueueFits`,
`JobsFit`), no chunk is in two places (`OnePlace`), and the chunks the reader is
not done with are no more than the buffers (`Ring`). `DownloaderSlots` counts on top of
it: live workers against the slots of the shared limit, and busy chunks against
the capacity of the channel.

**Transfer** (`TransferProofs`): `PendingCounts`, `CopyKeepsSource` and
`LossNeedsFailure`, for every content of the destination, every set of faults and
every number of retries. `TInv` adds that only what some move is about is ever
noted for removal (`RemovesMoved`), that what is missing from the source was moved
(`GoneWasMoved`), that a verification still has to visit every member the source
holds (`Walks`), and that a file noted for removal is settled or some task of the
group will still see to it (`Covered`): settled means that the source may go as soon
as the destination has an entry for it, because that is the file itself or the
loss has a cause. That nothing at all is lost, `NoLoss`, fails (MCTransferLoss).

**WebDAV locks** (`WebDAVLocksProofs`): `TypeOK`; `NoConflict`,
`RefCounts` and `ExpiryComplete` of the table; `HeldStays` and `NoLeakedLock` of
the requests; and `ExclusiveAccess`, for every set of names closed under
walkToRoot, every number of requests and tokens and every set of timeouts. `NoConflict`
needs `RefCounts`: `canCreate` reads "nothing is locked below" off the count of a
node. `ExclusiveAccess` needs to know who owns each lock: the inductive invariant
`IInv` adds that tokens and nodes match, that a temporary lock is one of depth 0
that no client was given and that belongs to one request only, and that the locks
a request holds cover what it claims and are held by nobody else. The argument for
a step is then: removing the locks of a set of nodes, none of them guarded by
another request, keeps the table and those requests (`RemovalInv`); so does
creating one where `canCreate` allows it (`CreateInv`) and changing one that is
free (`ChangeInv`). The expiry that begins every step only takes free locks with
a timeout, and no temporary or held lock is one. The counts are sums over finite
sets, so the table lemmas work with cardinalities and need no induction.

**S3 uploads** (`S3MultipartProofs`): `DirReclaimed`, `PartIntact` and
`ObjectMatches`, however the requests of the upload overlap. The latter two except,
by the history, the parts that two requests wrote at once and, for an object, those
written during its completion; without the exception they fail
(MCS3MultipartOverlap, MCS3MultipartDisk). Files are inodes, so `SInv` says who has
which: different parts, and their writers, share none, and a part outside `twice`
has one writer (`Own`); a recorded part that nobody writes again is on disk as
recorded or went with its upload (`Kept`); and a completion has open what it
validated and has read a prefix of its list (`Reads`), also while an abort or the
reaper removes the files under it.

**Multi-source reader** (`MultiSourceProofs`): `Contiguous`, `ErrorHasCause`,
`ReadAheadBounded` and `SlotsAccounted`. What is cut so far tiles the range up to
what is left (`Tiles`), for both forms of the first subchunk and a cut last one;
the cursor of Read is inside the subchunk that the bytes delivered lead to
(`Cursor`); the scheduler starts subchunks in turn, each inside the window when it
asks for a token (`InTurn`), and since the position read only grows it stays
inside. For `ErrorHasCause`, `Causes` follows the error of a worker: it is
"failed" only when all sources were tried or ctx already failed.

Only model-checked: `SnapshotExact` of `Window`, whose scan of the slots is a
recursive function, so that it would need induction over data; `FreshListing`,
`FreshLink` and `PutAtomic` of `DirCache`, whose operations are lists of steps
built and consumed element by element, with history variables for every overlap
that the code does not keep current; `UploadEnds` and all other liveness, which is
out of the prover's reach together with ENABLED.

## Not modelled

Inside the modelled parts: the single-part path of the downloader, its HTTP
set-up; the refusal of a chunk index out of range at the head of WriteChunk
(`window.go:146`); copying within one storage, the synchronous copy and the update hooks of
the destination; failures of the disk below the ring file other than a failed
read or write; CRC collisions. The remote of the downloader sends at most the bytes
asked for: a longer body is taken for one that broke off, once the chunk is full
(`request.go:766`, `778`), and what its empty rest is answered with is not modelled. `finishBuf` reads `d.bufs` without the mutex
(`request.go:328`), a data race by the letter; every slice header it can see has
the same element at that index, so the model reads it in one step. Writers to a
source directory other than the move itself are not in `Transfer`, so a file that
arrives between listing and removal is not covered.
`DirCache` leaves out the result-object interfaces of drivers, refreshes asked for
by the client, storages with NoCache, archives, the update hooks, and callers that
join a call under way; its tree has two levels, so directories are renamed and
removed in it, but not moved or copied. What a driver that overwrites in place leaves
of a failed upload is in `Transfer`, not in `DirCache`. `MultiSource` takes a source that
sends the right number of bytes to have sent the right ones. `S3Multipart` has one
upload, and no headers of the object. `WebDAVLocks` leaves out what a request does
to the files, and the parsing of If headers beyond the locks they name.

Of the implementation's 143,000 lines the modules stand for some 3,300. They are those with state that goroutines share and with guarantees the
repository itself states. The bulk of the rest cannot be modelled faithfully from
this repository or would not be worth a model:
- `drivers/`, 89,000 lines, are clients of providers: requests to services that
  are not here, and the parsing of their answers. What matters in them (does a
  call fail, does it overwrite, what does it return) is an input of `DirCache`,
  `Transfer` and `Sessions`;
- `server/`, 21,000 lines, is mostly the translation of requests to calls of the
  packages above, protocol libraries (FTP, SFTP, MCP, WebDAV properties and XML) and
  reading and writing of settings; the two parts with a protocol of their own, S3
  multipart uploads and WebDAV locks, are modelled;
- `internal/` and `pkg/`, 32,000 lines, hold the modelled parts, the database
  access, archive formats, configuration, types and helpers without state.

Within reach and not modelled, in the order in which they seem worth it: the
storage lifecycle (`internal/op/storage.go`), the error group and the pipe
(`pkg/errgroup`, `pkg/buffer/pipe.go`), index builds (`internal/search/build.go`), the
115 leases, the registries over the database, and the hybrid cache as a pure
algorithm. `Sessions` keeps its own abstraction of the window instead of an
INSTANCE of `ChunkStream`, because it counts chunks and `ChunkStream` bytes.
