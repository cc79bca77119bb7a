----------------------------- MODULE AbortUpload -----------------------------
(***************************************************************************)
(* AbortUploadUseCase.execute, the handler of DELETE /v1/uploads/{id}.     *)
(***************************************************************************)
EXTENDS UploadState

AbortGet(r, s) ==
  /\ At(r, "idle")
  /\ IF session[s] = None
       THEN Refuse(r, "abort", s, AbortStatus("EntityNotFoundError"))
       ELSE Receive(r, "abort", s, None, "abort_lock")
  /\ UNCHANGED <<redisVars, s3Vars, events, histVars>>

(* mutant: the session is deleted without its chunks                       *)
AbortSessionOnly(r) ==
  /\ At(r, "abort_lock")
  /\ AcquireLock(req[r].on)
  /\ Becomes(r, [req[r] EXCEPT !.pc = "drop", !.status = 204])
  /\ UNCHANGED <<session, chunk, registry, s3Vars, events, histVars>>

(* session.abort() changes the local entity only; it is never saved.       *)
AbortLock(r) ==
  /\ At(r, "abort_lock")
  /\ \/ AcquireLock(req[r].on) /\ Conclude(r, 204, Aborted(req[r].snap))
     \/ /\ ~LockIsFree(req[r].on)
        /\ Answer(r, AbortStatus("LockAcquisitionError"))
        /\ UNCHANGED lock
  /\ UNCHANGED <<session, chunk, registry, s3Vars, events, histVars>>
=============================================================================
