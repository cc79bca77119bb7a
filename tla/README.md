# A TLA+ model of the file uploader service

The service (FastAPI, Python) takes files of up to 1 GB in chunks, keeps the
chunks in Redis, and on `finalize` scans them, assembles them on S3 as a
multipart upload, registers the file for deduplication and publishes a
`FILE_UPLOAD_COMPLETED` event on NATS. Paths below are relative to the
repository; the Python sources are under `src/`.

## 1. Inventory

| Component | State | Operations | Used by |
|---|---|---|---|
| `UploadSession` entity (`domain/entities`) | tenant, file, size, checksum, offset, status | `update_offset`, `complete`, `abort`, `fail` | all use cases, as a local copy |
| Session repository and lock (`infrastructure/redis/repository.py`) | `session:upload:{id}` (24 h), `lock:upload:{id}` (10 s) | `get`, `save`, `delete`, `acquire_lock`, `release_lock` | all use cases |
| Chunk repository (same file) | `upload:{id}:chunk:{n}` and its meta key (24 h) | `save`, `get`, `get_stream`, `delete_all` | PATCH, DELETE, finalize |
| Deduplication registry (`infrastructure/database/registry.py`) | `dedup:{tenant}:{checksum}` | `get_by_checksum`, `register_file` | initiate, finalize |
| Object storage (`infrastructure/s3/storage.py`) | the bucket, open multipart uploads | initiate, upload part, complete, abort | finalize |
| Event publisher (`infrastructure/nats/publisher.py`) | attempt counter; the client's buffer | `publish_file_upload_completed` | finalize |
| Virus scanner (`infrastructure/security/scanner.py`) | none | `scan_stream` | finalize |
| Use cases (`application/use_cases`) | locals of a coroutine | initiate, upload chunk, abort, finalize | the router |
| Router (`presentation/api/v1/routers/uploads.py`) | none | POST, PATCH, HEAD, DELETE, POST finalize; an HTTP status for each exception | clients |
| Exceptions and error handlers (`domain/exceptions.py`, `presentation/api/middleware/error_handler.py`) | none | the class hierarchy, the statuses of what the router lets through | the router |
| Client (external) | what it believes is stored | sends, waits, resumes, aborts, starts again | - |

The service holds no state of its own between requests. Its components interact
only through awaited calls: router to use case to adapter to Redis, S3 or NATS.
Concurrency is that of requests, on one event loop or on several workers: each
is suspended at every `await`, and what it read before may be stale after it.

What is hard in it:

* the session is read **before** the session lock is taken and saved after;
* the lock expires after 10 s, is not renewed, and is deleted by whoever
  releases it;
* a finalize is a chain of some twenty awaited calls to three systems; each may
  fail, may fail after having taken effect, or be the last one a worker makes;
* a worker that stops cancels its handlers, and `CancelledError` passes the
  `except Exception` clauses that clean up, though not the `finally` ones;
* chunks are read twice (scan, upload), and deleted by a scan followed by a delete;
* session and chunk keys expire on their own, at different times;
* clients repeat requests whose answer they did not get, while the first one may
  still be running;
* what a client does next depends on the status it is answered, and that on the
  order of the `except` clauses;
* a failed publish may still deliver, now or later.

What makes each component correct, in a line each: the **lock** admits one
request per session and is never left behind by a request that ends; a
**session**'s offset never passes the size and never goes back for a client
that sends one request at a time; **finalize** only stores what it scanned,
stores before it registers, registers before it announces, announces before it
answers, and leaves no multipart upload open; **clean-up** leaves nothing and
never strands a chunk; the **registry** only points to objects that exist, in the
tenant's own part of the bucket; the **publisher** reports success only if the
broker has the event and never multiplies it beyond its attempts; the **API** as
a whole lets a client that resumes get its whole file stored, or learn that it
is rejected.

`PROJECT.json` lists every hazard at its line with the properties about it.

## 2. Modules

| Module | Models | Correspondence |
|---|---|---|
| `UploadSession` | the entity, the keys and the event | methods are operators on a record; raising is a guard (`MayAdvance`) |
| `Responses` | exceptions and their HTTP statuses | one operator per handler, its `except` clauses in order |
| `UploadState` | Redis, S3, NATS as seen by the service; request records; the adapters' methods | one variable per key family; `req[r]` is a coroutine: `pc` the await it is at, the rest its locals (`snap` is the entity read before the lock) |
| `InitiateUpload` | POST `/v1/uploads` | `InitiateCheck`, `InitiateSave` |
| `UploadChunk` | PATCH | `PatchGet`, `PatchLock` (lock and all checks), `PatchStore` (chunk, `update_offset`), `PatchSave` |
| `QueryUpload` | HEAD | `QueryGet`: one read, without the lock |
| `AbortUpload` | DELETE | `AbortGet`, `AbortLock` |
| `FinalizeUpload` | POST finalize | one action per awaited call, with the malware branch and the `except` clause |
| `CleanUp` | `delete_all`, `session_repo.delete`, the `finally` clause | shared by abort and finalize |
| `UploadService` | the composition: router, interleaving, faults, fairness | `Arrive` (a request is received and its first read done), `Work` (a handler's next step), `Respond` (the client learns the status), `Fault` |
| `UploadProperties` | the properties | section 3 |
| `SessionLock` | abstract: what the lock is to its users; `Lapses` and `Forsakes` say whether its TTL may end under an owner, and whether owners die or calls go unanswered | refined by `UploadService` |
| `Ingest` | abstract: what a finished upload promises | refined by `UploadService` |
| `ResumableClient` | external: one client that keeps to the documented API | composed with `UploadService`, whose actions it sends and waits for |
| `EventPublisher` | `publish_file_upload_completed` over an external NATS client | one action per step of the retry loop |
| `PublishContract` | abstract: what finalize may rely on | refined by `EventPublisher` |
| `MCUpload`, `MCResume` | instances for TLC | payloads, sizes, files, requests |
| `UploadServiceProofs`, `SessionLockProofs`, `IngestProofs`, `EntityProofs`, `FinalizeProofs`, `ResumableClientProofs`, `WholeFileProofs`, `EventPublisherProofs` | theorems | section 5 |

One action runs from one `await` to the next, so every interleaving the event
loop or several workers can produce is there. Two exceptions, both of one
request under its own lock: `S3Part` joins the read of a chunk with the
`upload_part` that follows (the bytes are a local in between, and parts cannot
be seen before the upload is completed), and `PurgeScan` takes the keys that
exist at one moment, though SCAN walks them.

A payload stands for its bytes and is its own SHA-256; what the code tells apart
is its size, whether it has the scanner's signature, and equality. Logging,
JSON, URIs' text, wording of errors and Python types are left out. Every
payload of the MC modules is of the size, in MB, that the name's comment gives,
and `MinChunk`, `MaxChunk` are the code's 5 and 50.

Outside the code, and taken as follows. *Redis*: commands are atomic; a command
that raises may have been applied. *S3*: `CompleteMultipartUpload` refuses an
empty list and a part under 5 MB that is not the last; initiating and
completing may take effect although the call raises. *NATS client*: `publish` buffers, also
while reconnecting; `flush` returns only when the broker has what was published
before; a broken connection loses a prefix of the buffer, oldest first; a client
that has given up reconnecting is closed for good. *uuid4* never repeats an id.

The client of `ResumableClient` sends chunks in order. After a request that
failed it asks HEAD for the offset and goes on from there, after a 404 it
starts again, after a 400 from finalize it aborts and starts again. If it
times out, its request may still be running (or never have arrived). After a
PATCH that timed out it either aborts the session (`Impatient = FALSE`) or
resumes with HEAD (`Impatient = TRUE`). Session and chunk keys may expire under
it (`Expires`, counted as a fault): all have the same TTL, so the chunks of a
client that is patient go in the order in which it sent them.

### Faults

The constant `Faults` chooses among seven: `crash` (a worker dies, its request
with it), `cancel` (a worker stops and cancels its handlers at their awaits:
`finally` runs, `except Exception` does not), `lapse` (a lock's TTL ends while
its holder works), `ttl` (session and chunk keys expire), `redis`, `s3`, `nats`
(a call raises, applied or not). Without `lapse` a lock expires only once
nobody holds it: that is the assumption "no critical section takes longer than
10 s", which the code does not ensure.

## 3. What the runs check

`Req` are slots for concurrent requests; each slot serves any number of requests
one after the other, so behaviours are unbounded in length.

| Run | Instance | Properties | Shows |
|---|---|---|---|
| `Locking` | 2 requests, 2 sessions of 2 tenants with one checksum; good and infected chunk; `nats` | `MutualExclusion`, `NoLeakedLock`, `AckedIsDurable`, `ImplementsLock` | the lock excludes, every path out of a `try` frees it, and nothing else does but the TTL once nobody holds it; deduplication never answers with another tenant's object or with one that is not there |
| `Overlap` | 2 requests; good, infected, corrupted chunks; `redis`, `nats`, `ttl` | `UploadedWasScanned`, `ObjectsScannedClean`, `PurgedAtRelease`, `StoredSessionSound`, `NoStrayMultipart` | stale snapshots, expiring chunks and failing calls do not get an unscanned part into the bucket, an unsound session into Redis, or a multipart upload forgotten |
| `Sequential` | 1 request at a time, every kind of bad PATCH; `crash`, `cancel`, `redis`, `s3`, `nats` | `TypeOK`, `ChunksHaveSession`, `FailedIsFinal`, `ProgressIsKept` | the protocol survives a failure, a death or a cancellation at every point |
| `Faulty` | 2 requests, one-chunk file, all seven faults | `ImplementsIngest`, `HandlersKeepToLock` | the order stored, registered, announced, acknowledged needs no lock at all; no handler enters without setting the lock, frees one it does not believe its own, or goes on after giving it up |
| `Resume` | a client with an 8 MB file, clean or infected, 2 request slots, 2 sessions; one time-out or fault of any kind but `lapse`; fairness | `FinishedIsWhole`, `VerdictFollowsChunks`, `ClientFinishes`, `RequestsAreAnswered`, `LocksBecomeFree` | the API lets a client end with its whole file in the bucket, or rejected for one of its chunks, wherever the fault strikes; nobody waits for a lock, and a dead holder's goes away |
| `Publisher` | `MaxRetries = 3` | `TypeOK`, `OneCopyPerAttempt`, `ImplementsContract`, `PublishEnds` | retries neither lie nor multiply without bound |

`ImplementsLock` is checked in `Locking` and not in `Faulty`: once locks may
lapse, `SessionLock` admits that a key goes away at any time, so that a handler
that frees somebody else's lock would pass for an expiry. `HandlersKeepToLock`
tells the two apart by the handler that moves, and is checked under all faults.

Six runs show where the code does not do what its documentation says; each
has a finding in `PROJECT.json` with the quotation. TLC prints the behaviour.

| Run | Violated | What happens |
|---|---|---|
| `LostUpdate` | `ProgressTrackedAtomically` | two PATCHes of a 10 MB file in parallel: both read offset 0, both save 5 |
| `Resurrection` | `AbortedStaysGone` | a PATCH that read the session before the abort saves it after |
| `Abandoned` | `FinalizedIsWholeFile` | a client's first PATCH times out and still runs; HEAD says 0, it sends the chunk again, both count for 10 MB; finalize answers 200 for 5 |
| `Unannounced` | `DeduplicatedWasAnnounced` | publish fails after register; the next initiate is answered "deduplicated" |
| `Lapsed` | `OneAssemblyAtATime` | the lock lapses; a second finalize assembles the same object |
| `Expired` | `FinalizedIsWholeFile` | both chunks of a file expire when finalize has sent the first one; it finds no second, completes the object, and answers 200 |

`Resume` and `Abandoned` differ in what the client does about a PATCH it gave
up waiting for: to be safe it has to abort the session and start again.

Three more disagreements need no run, since one request after the other shows
them:

* `docs/architecture/overview.md:42` says that scanning chunks individually "fails
  to detect signatures split across boundaries", and that the stream is scanned
  instead. The scanner (`infrastructure/security/scanner.py:25`) looks for the
  signature in one chunk at a time and keeps nothing of the one before, and so
  does `ThreatIn`: a file with the signature across two chunks is stored and
  answered 200. `ObjectsScannedClean` and `VerdictFollowsChunks` are therefore
  about parts and chunks, and say nothing of such a file.
* `docs/index.md:13` says that uploads are stored "immutably". The object's key is
  the file id the client chose (`infrastructure/s3/storage.py:27`), and nothing
  asks whether it is taken: a second upload under the id replaces the object.
  `CompleteMultipart` does that, and no property forbids it.
* `docs/architecture/overview.md:38` says chunks are purged as soon as they are
  sent; `finalize` deletes them all at its end.

### Bounds, and why they are enough

* `Index`: two chunk indices give a first, a last, a missing and a repeated
  chunk. `Faulty` has one: the order it checks does not depend on how many parts
  an object has, and the parts themselves are the subject of the other runs.
* `Payload`: five payloads give each outcome of the size and signature checks
  (5 MB, 3 MB, 3 MB infected, empty, 51 MB).
* `Req`: two slots give every race of a pair of requests, which is what each
  hazard needs; in `Resume` they are the client's request and one it gave up.
* `Session` bounds the ids `uuid4` can return (`issued`). One is enough where
  the property speaks of one session, as sessions share nothing but the registry
  and the bucket; `Locking` has two, `Resume` two for a client
  that starts again.
* `UploadId` bounds the multipart uploads open at a time; `MayLeak` keeps enough
  of them for the requests in progress, so the bound never blocks a finalize.
* `MaxFaults` is 1 in `Resume`: one fault, expiring key or time-out, at any
  point. It is what makes "finitely many faults" finite. With two the liveness
  part outgrows the time a run is allowed; the safety part passes as long as
  `ttl` is not among them, and with it fails as in `Expired`, which needs two
  since the first chunk expires before the second one.
* Symmetry, only in runs without liveness: `Symmetric` exchanges request slots,
  `SymmetricUploads` (`Overlap`, `Faulty`) also S3's upload ids, `SymmetricAll`
  (`Locking`) also session ids and tenants, which that instance treats alike.

### Fairness

`Fairness` has weak fairness on `Handle(r)`: a coroutine whose await has
completed is resumed by the event loop, and an await of Redis, S3 or NATS
completes or raises. For NATS, `PublishEnds` shows it; for Redis it is an
assumption, as the client is made without a `socket_timeout`
(`configuration/dependencies.py:39`) and would wait for a server that never
answers. `LockExpires(s)` is
weakly fair because Redis removes a key whose TTL is over. Nothing makes
workers die, calls fail or time-outs happen. `ClientFairness` is the same for
the composition, and lets the one client go on sending; without that
`ClientFinishes` would say nothing about the service. In `EventPublisher` only
the publisher's own step is fair, not the connection.

## 4. Dealing with deadlock

TLC checks for deadlock in all runs of `MCUpload`: some client can always send a
request. `Resume`, `Abandoned` and `Publisher` switch it off, since there one
client, or one call, is modelled and ends.

## 5. What is proved

TLAPS checks these for every value of the constants, in particular any number of
request slots, sessions, chunks, files and tenants, from the named assumptions
`DeclarationAssumption` (sizes are positive, as `InitiateUploadRequest`
requires), `StateAssumption` (types of the constants; `None` is not one of the
values it is told apart from), `ClientAssumption` (types of the client's
constants, `None` again, and that its chunks are among the requests) and
`RetriesAssumption` (`max_retries` is at least 1). A theorem with a condition on
`Faults` needs what the comment on its property says.

| Theorem | States | Provided |
|---|---|---|
| `TypeCorrect` | `[]TypeOK` | - |
| `LockRefines`, `LocksAreKeptTo` | `ImplementsLock`, `HandlersKeepToLock` | - |
| `LocksExclude` | `[]MutualExclusion` | no `lapse` |
| `LocksAreReleased` | `[]NoLeakedLock` | no `crash`, `cancel`, `redis` |
| `IngestRefines`, `AcksAreDurable` | `ImplementsIngest`, `[]AckedIsDurable` | - |
| `StoredSessionsAreSound` | `[]StoredSessionSound` | - |
| `UploadsWereScanned`, `ObjectsAreClean` | `[]UploadedWasScanned`, `[]ObjectsScannedClean` | no `lapse` |
| `PurgesAreComplete` | `[]PurgedAtRelease` | no `lapse` |
| `NoStrays` | `[]NoStrayMultipart` | no `crash`, `cancel`, `s3` |
| `ChunksNeverStranded`, `FailedStaysFinal`, `ProgressStays` | `[]ChunksHaveSession`, `[]FailedIsFinal`, `ProgressIsKept` | one request at a time, no `ttl` |
| `ClientRefines`, `ClientAcksAreDurable` | `ClientSpec => Spec`, `[]AckedIsDurable` of the client | - |
| `RejectionsAreRight` | `[]RejectedHasThreat` of the client, half of `VerdictFollowsChunks` | - |
| `FilesAreWhole`, `VerdictsFollowChunks` | `[]FinishedIsWhole`, `[]VerdictFollowsChunks` | no `lapse`, no `ttl`, a patient client, no empty chunk |
| `FinalizedHasItsSize` | `[]FinalizedIsWholeFile` of the client | the same, and files of the size declared |
| `PublisherTypes`, `CopiesBounded`, `PublisherRefines` | `[]TypeOK`, `[]OneCopyPerAttempt`, `ImplementsContract` | - |

The arguments, module by module:

* `UploadServiceProofs`. `TypeOK` is not inductive: that an action may use
  `req[r].snap` as an entity depends on the label. `TypeInv` adds, with
  `ShapeOf`, what each handler has at each label (inside a handler a session id
  and the entity read; in a PATCH its argument; in the part loop the upload id;
  at a 2xx reply an entity). Lemmas say once how a step changes a request, and
  each action is an instance.
* `SessionLockProofs`. `LockStep` lists the six things a step can do to locks and
  critical sections, with what causes those that need a fault, and every action
  is one of them. From it follow the steps of `SessionLock` and
  `HandlersKeepToLock`; `LockInv` (`HoldersHaveLock` with `MutualExclusion`)
  without `lapse`; and `NoLeakedLock` when the faults that leave locks behind
  (`LeavesLocks`) are absent.
* `IngestProofs`. `IngestInv` has three parts: `RequestsBehind` (what a request at
  a label has behind it: an object at `register`, a registration at `publish`,
  both and the event once finalize has concluded), `RegistryBacked`,
  `AckedBacked`. `IngestStep` lists what a step does to object, registry, events
  and acknowledgements, and since all four only grow, other requests cannot
  disturb it. That is why it needs no lock.
* `EntityProofs`. A stale snapshot is harmless to `StoredSessionSound` because
  snapshots are sound themselves: `MayHold` says that the entity of a request
  that is going to save is `Sound`, and that of a finalize past its checks has
  all its bytes. With one request at a time, `Knows` says more: the entity it
  read *is* the stored one until it changes it, and in a clean-up the session is
  there until the chunks are gone.
* `FinalizeProofs`. `ScanInv` is what a finalize knows of the chunks it reads
  twice: those it scanned are unchanged or gone, and once it has seen the end
  there is no further one, since under the lock chunks of its session can only
  disappear. `BirthInv` says that nobody has the id of a session that initiate
  has not saved yet; without it, `init_save` could save into what an abort
  is purging. `PurgeInv` follows a clean-up from its scan to its release. For
  `NoStrays`, `Owns` ties every open multipart upload to the request in its part
  loop.
* `ResumableClientProofs`. `ClientInv` makes every request of the client one that
  `UploadService` admits, so the composition refines the service and inherits
  its theorems. `VerdictInv` adds that only the client's own chunks are sent,
  stored and scanned, and that whoever is about to answer 422 has found the
  signature in one of them.
* `EventPublisherProofs`. `PublisherInv` contains that the call is given up
  exactly when its attempts are used up, and that a copy not lost is in the
  buffer or at the broker; the latter is what success needs.

Of `WholeFileProofs`, which relates what the client believes to what the
service has, `WholeInv` has five parts:

* `OwnData`: sessions, chunks, snapshots, PATCH bodies and acknowledgements are
  all of this client's file, and chunk `i` is the file's chunk `i`;
* `Exchange`: every request is where its operation can be, the one the client
  waits for is the one its phase sends, to its session, and a client that is done
  was acknowledged;
* `IdsAreNew`: the id an initiate is about to answer is in nobody else's hands;
* `Progress`: while the client sends or asks, the session's offset is that of its
  first chunks and they are stored, a PATCH between its two writes being one
  chunk ahead; besides the request it waits for, only HEADs are about its
  session. Once it finalizes, the session is `Sealed`: all chunks are there or
  none, the offset is that of the whole file, and no PATCH is on its way;
* `Assembled`: what a finalize has sent to S3 is a beginning of the file, what it
  completes is all of it or nothing (which S3 refuses), and every object is the
  whole file.

It is inductive together with `TypeInv`, `LockInv`, `BirthInv`, `PurgeInv` and
`ClientInv`; TLC finds it true in every state of the instance of `Resume`. It needs that an offset tells how many chunks are stored:
`OffsetsAdd` and `OffsetsDiffer` prove it of the running sums in `TotalSize`.
The induction is over a *set* of natural numbers (`FromZero`, from the least
element of a well-founded order), so that no theorem with an operator as
parameter is used.

Each condition is needed; on small instances TLC finds `FinishedIsWhole`
violated without it. A client that resumes after a PATCH that timed out is the
run `Abandoned`, and chunks that expire while they are sent are the run
`Expired`. With a lapsing lock an abort purges the chunks of a finalize
that the client gave up and that is still sending them: it completes the object
with those it has sent, and the client's next initiate is answered
"deduplicated". With an empty chunk in the middle two positions have
the same offset, so that the client goes on behind a chunk that was never
stored; finalize compares the offset only, stops reading at the gap, completes
the object without the rest and answers 200.

Only model-checked: the liveness properties (`ClientFinishes`,
`RequestsAreAnswered`, `LocksBecomeFree`, `PublishEnds`), as fairness is out of
the prover's reach.

## 6. Not modelled

* Settings, wiring, logging, metrics, the request-logging middleware, health and
  index endpoints hold no upload state. Bearer tokens (`get_tenant_id`) only
  choose the tenant, which is part of the declaration. Start-up precedes every
  request; of shut-down, its effect on handlers is `Cancel` or `Crash`.
* A call to S3 runs in a thread, which a cancelled handler does not stop: that
  its effect may come after the cancellation is left out.
* A Redis failure in a handler's very first read changes nothing and is not told
  apart from a request that was never sent.
* The limits S3 itself sets beyond the minimum part size are covered by "an S3
  call raises".
* A client that disconnects while its request is handled is not told the answer,
  which is the same as ignoring it (or giving up waiting, in `ResumableClient`).

## 7. Order of work, and what is left

The modules were built in the order entity, state, the handlers, clean-up,
composition, properties, publisher, the abstract specifications, the client; the
proofs in the order types, lock, `Ingest`, entity, finalize, one request at a
time, client, whole files.

Left: `Resume` with two faults in the time a run is allowed, and theorems about
what a client may count on when a lock does lapse (today: `IngestRefines`,
`AcksAreDurable`, `StoredSessionsAreSound` and `RejectionsAreRight`).
