--------------------------- MODULE UploadProperties ---------------------------
(***************************************************************************)
(* What makes the service correct, and what its documentation claims that  *)
(* it does not do.  Which properties hold depends on Faults and on whether *)
(* requests overlap; each comment says under which conditions.             *)
(***************************************************************************)
EXTENDS UploadService

(* At most one request is between acquire_lock and release_lock of a       *)
(* session.  Holds while no critical section outlives the lock's TTL.      *)
MutualExclusion ==
  \A r1, r2 \in Req, s \in Session : Holds(r1, s) /\ Holds(r2, s) => r1 = r2

(* A request inside its critical section has the lock.  Same condition.    *)
HoldersHaveLock == \A r \in Req, s \in Session : Holds(r, s) => lock[s]

(* All the handlers together use the lock as SessionLock says.  While      *)
(* locks do not lapse, no worker dies or stops and Redis answers, that     *)
(* leaves two steps: a request enters its critical section by setting a    *)
(* key that was not there, and leaves it by deleting that key.             *)
Locking ==
  INSTANCE SessionLock WITH
    Owner  <- Req,
    Name   <- Session,
    Lapses <- "lapse" \in Faults,
    Forsakes <- Faults \cap {"crash", "cancel", "redis"} # {},
    key    <- lock,
    inside <- {x \in Req \X Session : Holds(x[1], x[2])}

ImplementsLock == Locking!Spec

(* The request is cut off by a fault after which its lock may stay behind. *)
CutOff(r) == Crash(r) \/ RedisRaises(r) \/ Cancel(r)

(* What a handler may do about locks, whatever fails, dies, is cancelled   *)
(* or lapses: enter only by setting a key that was not there; leave only   *)
(* by deleting it, unless a fault cuts it off; and delete no key without   *)
(* leaving, so that only the TTL frees the lock of somebody who is not     *)
(* leaving.  Here an expiry is told from a key deleted by mistake: a       *)
(* handler's step moves the handler on, an expiry moves nobody.            *)
HandlersKeepToLock ==
  [][\A s \in Session :
       /\ \A r \in Req : ~Holds(r, s) /\ Holds(r, s)' => ~lock[s] /\ lock'[s]
       /\ \A r \in Req : Holds(r, s) /\ ~Holds(r, s)' => ~lock'[s] \/ CutOff(r)
       /\ lock[s] /\ ~lock'[s] =>
            LockExpires(s) \/ \E r \in Req : Holds(r, s) /\ ~Holds(r, s)']_vars

(* Every path out of the try blocks releases the lock: while no worker     *)
(* dies or stops and Redis answers, a lock belongs to a request still in   *)
(* progress, so no client meets 400 "could not acquire" from one that is   *)
(* over.                                                                   *)
NoLeakedLock == \A s \in Session : lock[s] => \E r \in Req : Holds(r, s)

(* Chunks are read once by the scanner and again for S3.  What goes to S3  *)
(* is what was scanned: nobody may replace or add a chunk in between, in   *)
(* any interleaving of requests, as long as locks do not lapse.            *)
IsPrefixOf(p, q) == Len(p) <= Len(q) /\ \A i \in 1 .. Len(p) : p[i] = q[i]

UploadedWasScanned ==
  \A r \in Req : req[r].pc \in PcS3 \cup PcCommitted =>
    IsPrefixOf(req[r].parts, req[r].seen)

(* No object in the bucket has a part with the signature the scanner looks *)
(* for inside it.  Same conditions.  The scanner looks at one chunk at a   *)
(* time: a signature across two chunks is in no part, and is stored,       *)
(* although docs/architecture/overview.md has it found.                    *)
ObjectsScannedClean ==
  \A k \in Key : object[k] # None =>
    \A i \in 1 .. Len(object[k]) : object[k][i] \notin Infected

(* The order of the last steps of finalize, whatever fails, lapses or dies *)
(* in between: stored, registered, announced, acknowledged; a client told  *)
(* 200 by deduplication has an object behind the answer.  Ingest says it   *)
(* as a specification of its own.                                          *)
Ingestion ==
  INSTANCE Ingest WITH
    stored       <- {k \in Key : object[k] # None},
    registered   <- registry,
    announced    <- events,
    finalized    <- {a.decl : a \in {b \in acked : b.op = "finalize"}},
    deduplicated <- {a.decl : a \in {b \in acked : b.op = "initiate"}}

ImplementsIngest == Ingestion!Spec

(* The consequence a client relies on: what it was told of exists, in the  *)
(* tenant's own part of the bucket, and was announced if it finalized it.  *)
AckedIsDurable ==
  \A a \in acked : a.op \in {"finalize", "initiate"} =>
    /\ \E f \in File : /\ registry[DedupKey(a.decl)] = <<a.decl.tenant, f>>
                      /\ object[<<a.decl.tenant, f>>] # None
    /\ a.op = "finalize" => Event(a.decl) \in events

(* A multipart upload stays open on S3 only while a finalize is working on *)
(* it: every failure inside the upload loop aborts it.  Holds unless a     *)
(* worker dies or stops, or S3 itself fails.                               *)
NoStrayMultipart ==
  \A id \in multipart : \E r \in Req : req[r].upload = id /\ req[r].pc \in PcS3

HasAnyChunk(s) == \E i \in Index : chunk[s][i] # None

FinalizedOk(r) == req[r].op = "finalize" /\ req[r].status = 200

(* When abort, a successful finalize or a malware verdict is about to      *)
(* release the lock, no chunk and no session of that upload is left, not   *)
(* even one another request was storing.  Needs locks that do not lapse.   *)
PurgedAtRelease ==
  \A r \in Req :
    At(r, "release") /\ (req[r].status \in {204, 422} \/ FinalizedOk(r)) =>
      session[req[r].on] = None /\ ~HasAnyChunk(req[r].on)

(* The offset of a stored session never passes the declared size, and a    *)
(* session is stored as COMPLETED or ABORTED never, as FAILED only with    *)
(* all its bytes uploaded.  Stale snapshots do not break it.               *)
StoredSessionSound ==
  \A s \in Session : session[s] # None =>
    /\ session[s].offset <= session[s].decl.total
    /\ session[s].status \notin {"COMPLETED", "ABORTED"}
    /\ session[s].status = "FAILED" => AllBytesUploaded(session[s])
    /\ session[s].status = "INITIATED" <=> session[s].offset = 0

-----------------------------------------------------------------------------
(* One client at a time (Req a singleton): what the protocol guarantees    *)
(* when requests do not overlap, across crashes and failed calls.          *)

(* Chunks do not outlive their session: chunks are deleted before the      *)
(* session is, so after a crash or a failure at any point of abort or      *)
(* finalize the session is still there and abort can be repeated.          *)
ChunksHaveSession ==
  \A s \in Session : session[s] = None => ~HasAnyChunk(s)

(* An offset the client was told of, or reads with HEAD, is never taken    *)
(* back: a stored offset only grows, and an id once used and gone does not *)
(* come back.                                                              *)
ProgressIsKept ==
  [][\A s \in Session :
       /\ session[s] # None /\ session'[s] # None =>
            session'[s].offset >= session[s].offset
       /\ session[s] = None /\ session'[s] # None =>
            session'[s] = NewUploadSession(session'[s].decl)]_vars

(* A session stored as FAILED is final: no request sends its chunks to S3, *)
(* registers or announces it, it can only be aborted.                      *)
FailedIsFinal ==
  \A r \in Req :
    /\ req[r].pc \in (PcS3 \ {"s3_abort"}) \cup PcCommitted
    /\ session[req[r].on] # None
    => session[req[r].on].status # "FAILED"

-----------------------------------------------------------------------------
(* Liveness, under FairSpec.                                               *)

(* Every request is answered: no request waits for another one.            *)
RequestsAreAnswered == \A r \in Req : ~At(r, "idle") ~> At(r, "idle")

(* A lock is always free again at some point, also when its holder died    *)
(* or could not release it: the TTL sees to it.                            *)
LocksBecomeFree == \A s \in Session : lock[s] ~> ~lock[s]

-----------------------------------------------------------------------------
(* What the documentation says and the code does not do.                   *)

(* docs/index.md: "Upload progress is tracked atomically in Redis."  A     *)
(* PATCH that saves the session adds its chunk to the offset stored then.  *)
ProgressTrackedAtomically ==
  [][\A r \in Req, s \in Session :
       (PatchSave(r) /\ req[r].on = s /\ session[s] # None) =>
         session'[s].offset = session[s].offset + Size[req[r].arg.data]]_vars

(* docs/index.md on DELETE: "Abort the upload session and clean up all     *)
(* temporary chunks."  Once an abort was acknowledged and nothing is in    *)
(* progress on the session, neither it nor a chunk of it is stored.        *)
AbortedStaysGone ==
  \A a \in acked :
    a.op = "abort" /\ (\A r \in Req : req[r].on # a.on) =>
      session[a.on] = None /\ ~HasAnyChunk(a.on)

(* docs/index.md: "Zero silent failures".  The object behind an            *)
(* acknowledged finalize has the size that was declared.                   *)
TotalSize(parts) ==
  LET sum[n \in 0 .. Len(parts)] ==
        IF n = 0 THEN 0 ELSE sum[n - 1] + Size[parts[n]]
  IN sum[Len(parts)]

FinalizedIsWholeFile ==
  \A a \in acked : a.op = "finalize" =>
    TotalSize(object[ObjectKey(a.decl)]) = a.decl.total

(* docs/index.md: the service "fires a FILE_UPLOAD_COMPLETED event to      *)
(* trigger all downstream processing".  A client told by deduplication     *)
(* that its file is there can count on the event.                          *)
DeduplicatedWasAnnounced ==
  \A a \in acked : a.op = "initiate" =>
    \E e \in events : DedupKey(e.decl) = DedupKey(a.decl)

(* docs/architecture/overview.md: the lock "prevents race conditions on    *)
(* session offset or assembly".  No two finalizes of one session assemble  *)
(* its object at the same time.                                            *)
OneAssemblyAtATime ==
  \A r1, r2 \in Req :
    /\ {req[r1].pc, req[r2].pc} \subseteq PcS3
    /\ req[r1].on = req[r2].on
    => r1 = r2
=============================================================================
