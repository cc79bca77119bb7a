--------------------------- MODULE FinalizeUpload ---------------------------
(***************************************************************************)
(* FinalizeUploadUseCase.execute, the handler of POST /{id}/finalize: scan *)
(* the stored chunks, send them to S3 as a multipart upload, register the  *)
(* file for deduplication, publish the event, clean up.  Chunk bodies are  *)
(* read from Redis twice, by the scan and by the upload.                   *)
(***************************************************************************)
EXTENDS UploadState

(* mutant: the check of the status is missing                              *)
FinalizeAnyStatus(r, s) ==
  /\ At(r, "idle")
  /\ session[s] # None /\ AllBytesUploaded(session[s])
  /\ Receive(r, "finalize", s, None, "final_lock")
  /\ UNCHANGED <<redisVars, s3Vars, events, histVars>>

FinalizeGet(r, s) ==
  /\ At(r, "idle")
  /\ IF session[s] = None
       THEN Refuse(r, "finalize", s, FinalizeStatus("EntityNotFoundError"))
       ELSE IF \/ session[s].status \in {"COMPLETED", "ABORTED", "FAILED"}
               \/ ~AllBytesUploaded(session[s])
              THEN Refuse(r, "finalize", s, FinalizeStatus("ValidationError"))
              ELSE Receive(r, "finalize", s, None, "final_lock")
  /\ UNCHANGED <<redisVars, s3Vars, events, histVars>>

(* mutant: acquire_lock is inside the try block, so finally follows        *)
FinalizeLockInTry(r) ==
  /\ At(r, "final_lock")
  /\ \/ AcquireLock(req[r].on) /\ Go(r, "scan")
     \/ /\ ~LockIsFree(req[r].on)
        /\ Answer(r, FinalizeStatus("LockAcquisitionError"))
        /\ ReleaseLock(req[r].on)
  /\ UNCHANGED <<session, chunk, registry, s3Vars, events, histVars>>

FinalizeLock(r) ==
  /\ At(r, "final_lock")
  /\ \/ AcquireLock(req[r].on) /\ Go(r, "scan")
     \/ /\ ~LockIsFree(req[r].on)
        /\ Answer(r, FinalizeStatus("LockAcquisitionError"))
        /\ UNCHANGED lock
  /\ UNCHANGED <<session, chunk, registry, s3Vars, events, histVars>>

FirstChunkOnly(p, seen) == p \in Infected /\ seen = <<>>   \* mutant

(* LocalVirusScanner looks for the signature in one chunk at a time.       *)
ThreatIn(p, seen) == p \in Infected

(* mutant: index += 1 is missing in get_stream                             *)
ScanSameChunk(r) == At(r, "scan") /\ UNCHANGED vars

(* One turn of the scanner's loop over get_stream.                         *)
Scan(r) ==
  LET s == req[r].on
      i == Len(req[r].seen)
  IN /\ At(r, "scan")
     /\ IF ~HasChunk(s, i) THEN Go(r, "s3_initiate")
        ELSE IF ThreatIn(chunk[s][i], req[r].seen)
               THEN GoWith(r, "mal_save", Failed(req[r].snap))
               ELSE Becomes(r, [req[r] EXCEPT !.seen = Append(@, chunk[s][i])])
     /\ UNCHANGED <<redisVars, s3Vars, events, histVars>>

(* MalwareDetectedError: save FAILED, then purge chunks and session.       *)
MalwareSave(r) ==
  /\ At(r, "mal_save")
  /\ SaveSnapshotAs(r, req[r].snap)
  /\ Conclude(r, FinalizeStatus("MalwareDetectedError"), req[r].snap)
  /\ UNCHANGED <<chunk, lock, registry, s3Vars, events, histVars>>

(* UploadId bounds the multipart uploads open on S3 at a time.             *)
S3Initiate(r) ==
  /\ At(r, "s3_initiate")
  /\ \E id \in UploadId \ multipart :
       /\ OpenMultipart(id)
       /\ Becomes(r, [req[r] EXCEPT !.pc = "s3_part", !.upload = id])
  /\ UNCHANGED <<redisVars, events, histVars>>

(* mutant: get(part_number) for get(part_number - 1)                       *)
S3PartOffByOne(r) ==
  LET s == req[r].on
      i == Len(req[r].parts) + 1
  IN /\ At(r, "s3_part")
     /\ IF HasChunk(s, i)
          THEN UploadPart(r, chunk[s][i])
          ELSE Go(r, "s3_complete")
     /\ UNCHANGED <<redisVars, s3Vars, events, histVars>>

(* chunk_repo.get and upload_part, one turn of the loop.                   *)
S3Part(r) ==
  LET s == req[r].on
      i == Len(req[r].parts)
  IN /\ At(r, "s3_part")
     /\ IF HasChunk(s, i)
          THEN UploadPart(r, chunk[s][i])
          ELSE Go(r, "s3_complete")
     /\ UNCHANGED <<redisVars, s3Vars, events, histVars>>

(* mutant: the except clause does not abort the multipart upload           *)
S3CompleteNoAbort(r) ==
  /\ At(r, "s3_complete")
  /\ IF Assemblable(req[r].parts)
       THEN /\ CompleteMultipart(req[r].upload, ObjectKey(req[r].snap.decl),
                                 req[r].parts)
            /\ Go(r, "register")
       ELSE Go(r, "fail_save") /\ UNCHANGED s3Vars
  /\ UNCHANGED <<redisVars, events, histVars>>

S3Complete(r) ==
  /\ At(r, "s3_complete")
  /\ IF Assemblable(req[r].parts)
       THEN /\ CompleteMultipart(req[r].upload, ObjectKey(req[r].snap.decl),
                                 req[r].parts)
            /\ Go(r, "register")
       ELSE Go(r, "s3_abort") /\ UNCHANGED s3Vars
  /\ UNCHANGED <<redisVars, events, histVars>>

S3Abort(r) ==
  /\ At(r, "s3_abort")
  /\ AbortMultipart(req[r].upload)
  /\ GoWith(r, "fail_save", Failed(req[r].snap))
  /\ UNCHANGED <<redisVars, object, events, histVars>>

FailSave(r) ==
  /\ At(r, "fail_save")
  /\ SaveSnapshotAs(r, req[r].snap)
  /\ Leave(r, FinalizeStatus("RuntimeError"))
  /\ UNCHANGED <<chunk, lock, registry, s3Vars, events, histVars>>

(* mutant: a failure to register is logged and ignored                     *)
RegisterBestEffort(r) ==
  /\ At(r, "register")
  /\ RegisterFile(req[r].snap.decl) \/ UNCHANGED registry
  /\ Go(r, "publish")
  /\ UNCHANGED <<session, chunk, lock, s3Vars, events, histVars>>

Register(r) ==
  /\ At(r, "register")
  /\ RegisterFile(req[r].snap.decl)
  /\ Go(r, "publish")
  /\ UNCHANGED <<session, chunk, lock, s3Vars, events, histVars>>

(* publish_file_upload_completed returns once the broker has the event.    *)
Publish(r) ==
  /\ At(r, "publish")
  /\ events' = events \cup {Event(req[r].snap.decl)}
  /\ Conclude(r, 200, Completed(req[r].snap))
  /\ UNCHANGED <<redisVars, s3Vars, histVars>>

FinalizeStep(r) ==
  \/ FinalizeLock(r) \/ Scan(r) \/ MalwareSave(r)
  \/ S3Initiate(r) \/ S3Part(r) \/ S3Complete(r) \/ S3Abort(r)
  \/ FailSave(r) \/ Register(r) \/ Publish(r)
=============================================================================
