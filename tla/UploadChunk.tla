----------------------------- MODULE UploadChunk -----------------------------
(***************************************************************************)
(* UploadChunkUseCase.execute, the handler of PATCH /v1/uploads/{id}: the  *)
(* session is read, then the lock is taken, then the chunk is checked      *)
(* against the session as it was read.                                     *)
(***************************************************************************)
EXTENDS UploadState

PatchGet(r, s, a) ==
  /\ At(r, "idle")
  /\ IF session[s] = None
       THEN Refuse(r, "patch", s, PatchStatus("EntityNotFoundError"))
       ELSE IF session[s].status \in {"COMPLETED", "ABORTED", "FAILED"}
              THEN Refuse(r, "patch", s, PatchStatus("ValidationError"))
              ELSE Receive(r, "patch", s, a, "patch_lock")
  /\ UNCHANGED <<redisVars, s3Vars, events, histVars>>

IsFinalChunk(u, a) == u.offset + Size[a.data] = u.decl.total

SizeAccepted(u, a) ==
  /\ Size[a.data] <= MaxChunk
  /\ Size[a.data] >= MinChunk \/ IsFinalChunk(u, a)

ChecksumMatches(a) == a.data = a.checksum

(* acquire_lock, and on success every check up to chunk_repo.save.         *)
PatchLock(r) ==
  LET s == req[r].on
      u == req[r].snap
      a == req[r].arg
  IN /\ At(r, "patch_lock")
     /\ \/ /\ AcquireLock(s)
           /\ IF ~SizeAccepted(u, a)
                THEN Leave(r, PatchStatus("ValidationError"))
              ELSE IF ~ChecksumMatches(a)
                THEN Leave(r, PatchStatus("ChecksumMismatchError"))
              ELSE Go(r, "patch_store")
        \/ /\ ~LockIsFree(s)
           /\ Answer(r, PatchStatus("LockAcquisitionError"))
           /\ UNCHANGED lock
     /\ UNCHANGED <<session, chunk, registry, s3Vars, events, histVars>>

(* The chunk is stored before update_offset can raise ValueError.          *)
PatchStore(r) ==
  LET u == req[r].snap
      n == Size[req[r].arg.data]
  IN /\ At(r, "patch_store")
     /\ SaveChunk(req[r].on, req[r].arg.index, req[r].arg.data)
     /\ IF MayAdvance(u, n)
          THEN GoWith(r, "patch_save", UpdateOffset(u, n))
          ELSE Leave(r, PatchStatus("ValueError"))
     /\ UNCHANGED <<session, lock, registry, s3Vars, events, histVars>>

PatchSave(r) ==
  /\ At(r, "patch_save")
  /\ SaveSession(req[r].on, req[r].snap)
  /\ Leave(r, 200)
  /\ UNCHANGED <<chunk, lock, registry, s3Vars, events, histVars>>

(* mutant: the session is saved before the chunk                           *)
OffsetFirst(r) ==
  LET u == UpdateOffset(req[r].snap, Size[req[r].arg.data])
  IN \/ PatchLock(r)
     \/ /\ At(r, "patch_store") /\ SaveSession(req[r].on, u)
        /\ GoWith(r, "patch_save", u)
        /\ UNCHANGED <<chunk, lock, registry, s3Vars, events, histVars>>
     \/ /\ At(r, "patch_save")
        /\ SaveChunk(req[r].on, req[r].arg.index, req[r].arg.data)
        /\ Leave(r, 200)
        /\ UNCHANGED <<session, lock, registry, s3Vars, events, histVars>>

PatchStep(r) == PatchLock(r) \/ PatchStore(r) \/ PatchSave(r)
=============================================================================
