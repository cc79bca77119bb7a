----------------------------- MODULE UploadState -----------------------------
(***************************************************************************)
(* The shared state of the uploader and the adapters that touch it: Redis  *)
(* (sessions, chunks, locks, dedup registry), the S3 bucket and the events *)
(* NATS delivered.  The service keeps nothing in memory between requests,  *)
(* so the rest of the state is one record per request being handled: where *)
(* its coroutine is suspended and its local variables.  A step of a        *)
(* request runs from one await to the next.                                *)
(***************************************************************************)
EXTENDS UploadSession, Responses, Integers, Sequences, FiniteSets

CONSTANTS
  Req,            \* slots in which requests are handled concurrently
  Session,        \* session ids uuid4() can return
  Index,          \* chunk indices that occur in requests
  Payload,        \* chunk bodies; SHA-256 is injective, so a body is its hash
  Size,           \* [Payload -> Nat], in MB
  Infected,       \* the payloads that contain the scanner's signature
  ChunkRequests,  \* PATCH arguments: index, body received, checksum header
  MinChunk, MaxChunk,  \* 5 and 50 in the code
  UploadId,       \* ids S3 gives to multipart uploads
  Faults,         \* which of FaultKinds may happen
  None

FaultKinds == {"crash",   \* a worker dies and its requests with it
               "cancel",  \* a worker stops and cancels its handlers
               "lapse",   \* a lock's TTL runs out while its holder works
               "ttl",     \* session and chunk keys reach their 24 hours
               "redis", "s3", "nats"}   \* a call to the service raises

ChunkRequestType == [index : Index, data : Payload, checksum : Payload]

ASSUME StateAssumption ==
  /\ Index \subseteq Int
  /\ Size \in [Payload -> Nat]
  /\ Infected \subseteq Payload
  /\ ChunkRequests \subseteq ChunkRequestType
  /\ MinChunk \in Nat /\ MaxChunk \in Nat
  /\ Faults \subseteq FaultKinds
  /\ None \notin UploadSessions \cup Payload \cup ChunkRequestType \cup UploadId
  /\ None \notin Key \cup Seq(Payload)

VARIABLES
  session,    \* session:upload:{id}      -> the stored entity
  chunk,      \* upload:{id}:chunk:{n}    -> the stored body
  lock,       \* lock:upload:{id} exists
  registry,   \* dedup:{tenant}:{checksum} -> S3 key
  object,     \* S3 key -> the parts its object was assembled from
  multipart,  \* ids of the multipart uploads open on S3
  events,     \* FILE_UPLOAD_COMPLETED events delivered
  issued,     \* session ids uuid4() has returned (it never repeats one)
  acked,      \* successful outcomes a client was told of
  req         \* the requests in progress

redisVars == <<session, chunk, lock, registry>>
s3Vars    == <<object, multipart>>
histVars  == <<issued, acked>>
vars      == <<redisVars, s3Vars, events, histVars, req>>

-----------------------------------------------------------------------------
(* A request record.  "idle" is a free slot, "reply" a handler that        *)
(* returned and whose HTTP status is about to be sent.                     *)
Ops == {"none", "initiate", "patch", "head", "finalize", "abort"}
PcBeforeLock == {"init_save", "patch_lock", "final_lock", "abort_lock"}
PcScan       == {"scan", "mal_save"}
PcS3         == {"s3_part", "s3_complete", "s3_abort"}
PcCommitted  == {"register", "publish"}
PcCritical   == {"patch_store", "patch_save", "s3_initiate", "fail_save",
                 "purge_scan", "purge_delete", "drop", "release"}
                \cup PcScan \cup PcS3 \cup PcCommitted
PcRedis      == PcBeforeLock \cup PcScan \cup PcCommitted \cup
                {"patch_store", "patch_save", "fail_save",
                 "purge_scan", "purge_delete", "drop", "release"}
Pc == {"idle", "reply"} \cup PcBeforeLock \cup PcCritical

Requests ==
  [pc : Pc, op : Ops, on : {None} \cup Session,
   snap : {None} \cup UploadSessions,    \* the entity read before the lock
   arg : {None} \cup ChunkRequests,
   seen : Seq(Payload), parts : Seq(Payload), found : SUBSET Index,
   upload : {None} \cup UploadId, status : Nat]

NewRequest(label, op, s, u, a, code) ==
  [pc |-> label, op |-> op, on |-> s, snap |-> u, arg |-> a, seen |-> <<>>,
   parts |-> <<>>, found |-> {}, upload |-> None, status |-> code]

IdleRequest == NewRequest("idle", "none", None, None, None, 0)

At(r, label) == req[r].pc = label

(* The coroutine of r runs to its next await, with these locals.           *)
Becomes(r, q) == req' = [req EXCEPT ![r] = q]

Go(r, label) == Becomes(r, [req[r] EXCEPT !.pc = label])

GoWith(r, label, u) == Becomes(r, [req[r] EXCEPT !.pc = label, !.snap = u])

(* The handler has returned or raised; its locals are gone, but for what   *)
(* the response is about.                                                  *)
Answer(r, code) ==
  Becomes(r, NewRequest("reply", req[r].op, req[r].on, req[r].snap, None, code))

(* mutant: no finally clause around the critical section                   *)
LeaveLocked(r, code) == Answer(r, code)

(* The handler leaves its try block: the finally clause releases the lock. *)
Leave(r, code) ==
  Becomes(r, [req[r] EXCEPT !.pc = "release", !.status = code])

(* The handler knows its answer; what is left is to clean up.              *)
Conclude(r, code, u) ==
  Becomes(r, [req[r] EXCEPT !.pc = "purge_scan", !.status = code, !.snap = u])

(* A request arrives in a free slot, and its handler reads the session;    *)
(* what it read stays in snap while other requests run.                    *)
Receive(r, op, s, a, label) ==
  Becomes(r, NewRequest(label, op, s, session[s], a, 0))

Refuse(r, op, s, code) ==
  Becomes(r, NewRequest("reply", op, s, None, None, code))

-----------------------------------------------------------------------------
(* RedisSessionRepository and RedisChunkRepository.                        *)
SaveSession(s, u) == session' = [session EXCEPT ![s] = u]

SaveSnapshotAs(r, u) == SaveSession(req[r].on, u)

DeleteSession(s) == session' = [session EXCEPT ![s] = None]

SaveChunk(s, i, p) == chunk' = [chunk EXCEPT ![s][i] = p]

(* get and get_stream treat a missing key and an empty body alike.         *)
HasChunk(s, i) == i \in Index /\ chunk[s][i] # None /\ Size[chunk[s][i]] > 0

(* mutant: delete_all walks the indices and stops at the first gap         *)
ContiguousIndices(s) == {i \in Index : \A j \in 0 .. i : chunk[s][j] # None}

StoredIndices(s) == {i \in Index : chunk[s][i] # None}

DeleteChunks(s, found) ==
  chunk' = [chunk EXCEPT ![s] =
              [i \in Index |-> IF i \in found THEN None ELSE @[i]]]

Without_Exclusion(s) == TRUE   \* mutant: SET without NX

(* SET NX EX: succeeds only when the key does not exist.                   *)
LockIsFree(s) == ~lock[s]

AcquireLock(s) == LockIsFree(s) /\ lock' = [lock EXCEPT ![s] = TRUE]

(* DEL, whoever holds the lock by now.                                     *)
ReleaseLock(s) == lock' = [lock EXCEPT ![s] = FALSE]

Holds(r, s) == req[r].pc \in PcCritical /\ req[r].on = s

-----------------------------------------------------------------------------
(* S3ObjectStorage.  S3 assembles the listed parts; it rejects an empty    *)
(* list and a part below the minimum that is not the last one.             *)
Assemblable(parts) ==
  /\ parts # <<>>
  /\ \A i \in 1 .. Len(parts) - 1 : Size[parts[i]] >= MinChunk

CompleteMultipart(id, key, parts) ==
  /\ object' = [object EXCEPT ![key] = parts]
  /\ multipart' = multipart \ {id}

OpenMultipart(id) == multipart' = multipart \cup {id} /\ UNCHANGED object

UploadPart(r, p) == Becomes(r, [req[r] EXCEPT !.parts = Append(@, p)])

AbortMultipart(id) == multipart' = multipart \ {id}

(* A multipart upload may be left open only while the bound on ids leaves  *)
(* one for each request.                                                   *)
MayLeak(r) ==
  req[r].upload \in multipart => Cardinality(UploadId \ multipart) >= Cardinality(Req)

-----------------------------------------------------------------------------
(* RedisMetadataRegistry; the service is wired without a TTL for it.       *)
GetByChecksum(d) == registry[DedupKey(d)]

RegisterFile(d) ==
  registry' = [registry EXCEPT ![DedupKey(d)] = ObjectKey(d)]

-----------------------------------------------------------------------------
InitState ==
  /\ session = [s \in Session |-> None]
  /\ chunk = [s \in Session |-> [i \in Index |-> None]]
  /\ lock = [s \in Session |-> FALSE]
  /\ registry = [k \in Tenant \X Checksum |-> None]
  /\ object = [k \in Key |-> None]
  /\ multipart = {}
  /\ events = {}
  /\ issued = {}
  /\ acked = {}
  /\ req = [r \in Req |-> IdleRequest]

(* What a client may rely on after a 2xx answer: its file was finalized,   *)
(* its session aborted, or its file found by deduplication (on is None).   *)
Acks == [op : Ops, on : {None} \cup Session, decl : Declarations]

(* The shapes of the state: in particular a stored offset and an HTTP      *)
(* status are naturals, and a lock, a session and a chunk map have one     *)
(* entry for each id.                                                      *)
TypeOK ==
  /\ session \in [Session -> {None} \cup UploadSessions]
  /\ chunk \in [Session -> [Index -> {None} \cup Payload]]
  /\ lock \in [Session -> BOOLEAN]
  /\ registry \in [Tenant \X Checksum -> {None} \cup Key]
  /\ object \in [Key -> {None} \cup Seq(Payload)]
  /\ multipart \subseteq UploadId
  /\ events \subseteq [decl : Declarations, uri : Key]
  /\ issued \subseteq Session
  /\ acked \subseteq Acks
  /\ req \in [Req -> Requests]
=============================================================================
