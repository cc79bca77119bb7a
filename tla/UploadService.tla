---------------------------- MODULE UploadService ----------------------------
(***************************************************************************)
(* The whole service: any number of requests of any kind interleaved at    *)
(* their awaits over the shared Redis, S3 and NATS, and the faults that    *)
(* the constant Faults admits.                                             *)
(***************************************************************************)
EXTENDS InitiateUpload, UploadChunk, QueryUpload, AbortUpload, FinalizeUpload,
        CleanUp

Init == InitState

(* The response is sent; a client that got a 2xx may rely on it.           *)
Respond(r) ==
  /\ At(r, "reply")
  /\ acked' = IF req[r].status \in {200, 204} /\ req[r].op \notin {"patch", "head"}
                THEN acked \cup {[op |-> req[r].op, on |-> req[r].on,
                                  decl |-> req[r].snap.decl]}
                ELSE acked
  /\ Becomes(r, IdleRequest)
  /\ UNCHANGED <<redisVars, s3Vars, events, issued>>

-----------------------------------------------------------------------------
(* Faults.                                                                 *)

(* The worker process dies: the request stops where it is.  A lock or a    *)
(* multipart upload it had opened stays behind.                            *)
Crash(r) ==
  /\ "crash" \in Faults
  /\ ~At(r, "idle")
  /\ MayLeak(r)
  /\ Becomes(r, IdleRequest)
  /\ UNCHANGED <<redisVars, s3Vars, events, histVars>>

LockStays(s) == FALSE /\ UNCHANGED vars   \* mutant: SET without EX

(* The lock was set with a TTL.  Without the fault "lapse" every critical  *)
(* section is taken to end within it, so it only runs out once the holder  *)
(* is gone.                                                                *)
LockExpires(s) ==
  /\ lock[s]
  /\ "lapse" \in Faults \/ \A r \in Req : ~Holds(r, s)
  /\ ReleaseLock(s)
  /\ UNCHANGED <<session, chunk, registry, s3Vars, events, histVars, req>>

(* A session or a chunk key reaches its 24 hours.  Saving a session does   *)
(* not renew its chunks, so either may go first.                           *)
KeyExpires(s) ==
  /\ "ttl" \in Faults
  /\ \/ session[s] # None /\ DeleteSession(s) /\ UNCHANGED chunk
     \/ \E i \in StoredIndices(s) : DeleteChunks(s, {i}) /\ UNCHANGED session
  /\ UNCHANGED <<lock, registry, s3Vars, events, histVars, req>>

(* The handler is cut at an await by an exception it does not catch:       *)
(* before the try block it just ends, inside it the finally clause runs    *)
(* first.  The call it awaited may still have been applied: a write that   *)
(* was is a cut at the next label, or, for SET NX and DEL of the lock, the *)
(* second alternatives.                                                    *)
CutShort(r) ==
  /\ \/ /\ req[r].pc \in PcBeforeLock
        /\ Answer(r, ServerError)
        /\ UNCHANGED lock \/ (~At(r, "init_save") /\ AcquireLock(req[r].on))
     \/ /\ req[r].pc \in PcCritical \ {"release"}
        /\ Leave(r, ServerError)
        /\ UNCHANGED lock
     \/ /\ At(r, "release")
        /\ Answer(r, ServerError)
        /\ UNCHANGED lock \/ ReleaseLock(req[r].on)
  /\ UNCHANGED <<session, chunk, registry, s3Vars, events, histVars>>

RedisRaises(r) == "redis" \in Faults /\ req[r].pc \in PcRedis /\ CutShort(r)

(* The process stops and the event loop cancels its handlers.  No except   *)
(* Exception clause catches CancelledError, so a finalize that is sending  *)
(* parts neither aborts the multipart upload nor saves the session.        *)
Cancel(r) == "cancel" \in Faults /\ MayLeak(r) /\ CutShort(r)

(* An S3 call, or a Redis read between two of them, raises.  Initiating    *)
(* and completing may have taken effect before the answer was lost.        *)
S3Raises(r) ==
  /\ \/ /\ "s3" \in Faults
        /\ At(r, "s3_initiate")
        /\ Leave(r, ServerError)
        /\ \/ UNCHANGED s3Vars
           \/ /\ Cardinality(UploadId \ multipart) > Cardinality(Req)
              /\ \E id \in UploadId \ multipart : OpenMultipart(id)
     \/ /\ \/ "s3" \in Faults /\ req[r].pc \in {"s3_part", "s3_complete"}
           \/ "redis" \in Faults /\ At(r, "s3_part")
        /\ Go(r, "s3_abort")
        /\ UNCHANGED s3Vars
     \/ /\ "s3" \in Faults
        /\ At(r, "s3_complete")
        /\ Assemblable(req[r].parts)
        /\ CompleteMultipart(req[r].upload, ObjectKey(req[r].snap.decl),
                             req[r].parts)
        /\ Go(r, "s3_abort")
  /\ UNCHANGED <<redisVars, events, histVars>>

(* abort_multipart_upload swallows the exception when S3 refuses: the      *)
(* upload stays open, and the handler goes on.                             *)
S3AbortFails(r) ==
  /\ "s3" \in Faults
  /\ At(r, "s3_abort")
  /\ MayLeak(r)
  /\ GoWith(r, "fail_save", Failed(req[r].snap))
  /\ UNCHANGED <<redisVars, s3Vars, events, histVars>>

(* publish_file_upload_completed raises when its attempts are exhausted,   *)
(* and a copy may have got through or may still do so (EventPublisher):    *)
(* events only records which events ever arrive.                           *)
PublishRaises(r) ==
  /\ "nats" \in Faults
  /\ At(r, "publish")
  /\ events' \in {events, events \cup {Event(req[r].snap.decl)}}
  /\ Leave(r, ServerError)
  /\ UNCHANGED <<redisVars, s3Vars, histVars>>

-----------------------------------------------------------------------------
(* The requests clients may send, in any order and at any time.            *)
Arrive(r) ==
  \/ \E d \in Declarations : InitiateCheck(r, d)
  \/ \E s \in Session, a \in ChunkRequests : PatchGet(r, s, a)
  \/ \E s \in Session : QueryGet(r, s) \/ AbortGet(r, s) \/ FinalizeGet(r, s)

(* A handler on its way to the response.                                   *)
Work(r) ==
  \/ InitiateSave(r) \/ PatchStep(r) \/ AbortLock(r) \/ FinalizeStep(r)
  \/ CleanUpStep(r)

Handle(r) == Work(r) \/ Respond(r)

Fault(r) ==
  \/ Crash(r) \/ RedisRaises(r) \/ Cancel(r)
  \/ S3Raises(r) \/ S3AbortFails(r) \/ PublishRaises(r)

Next ==
  \/ \E r \in Req : Arrive(r) \/ Handle(r) \/ Fault(r)
  \/ \E s \in Session : LockExpires(s) \/ KeyExpires(s)

Spec == Init /\ [][Next]_vars

(* The event loop resumes every coroutine whose await has completed, and   *)
(* Redis drops a key when its TTL is over.  Nothing makes clients call.    *)
Fairness ==
  /\ \A r \in Req : WF_vars(Handle(r))
  /\ \A s \in Session : WF_vars(LockExpires(s))

FairSpec == Spec /\ Fairness
=============================================================================
