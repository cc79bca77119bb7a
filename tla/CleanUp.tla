------------------------------- MODULE CleanUp -------------------------------
(***************************************************************************)
(* What the abort and finalize handlers share: delete_all on the chunks (a *)
(* SCAN, then one DEL of the keys it found), session_repo.delete, and the  *)
(* finally clause that releases the lock.  A handler enters at             *)
(* "purge_scan" with the status it will answer.                            *)
(***************************************************************************)
EXTENDS UploadState

PurgeScan(r) ==
  /\ At(r, "purge_scan")
  /\ Becomes(r, [req[r] EXCEPT !.pc = "purge_delete",
                               !.found = StoredIndices(req[r].on)])
  /\ UNCHANGED <<redisVars, s3Vars, events, histVars>>

(* mutant: the lock is released before the session is deleted              *)
PurgeDeleteUnlocked(r) ==
  /\ At(r, "purge_delete")
  /\ DeleteChunks(req[r].on, req[r].found)
  /\ ReleaseLock(req[r].on)
  /\ Go(r, "drop")
  /\ UNCHANGED <<session, registry, s3Vars, events, histVars>>

PurgeDelete(r) ==
  /\ At(r, "purge_delete")
  /\ DeleteChunks(req[r].on, req[r].found)
  /\ Go(r, "drop")
  /\ UNCHANGED <<session, lock, registry, s3Vars, events, histVars>>

Drop(r) ==
  /\ At(r, "drop")
  /\ DeleteSession(req[r].on)
  /\ Go(r, "release")
  /\ UNCHANGED <<chunk, lock, registry, s3Vars, events, histVars>>

Release(r) ==
  /\ At(r, "release")
  /\ ReleaseLock(req[r].on)
  /\ Answer(r, req[r].status)
  /\ UNCHANGED <<session, chunk, registry, s3Vars, events, histVars>>

CleanUpStep(r) == PurgeScan(r) \/ PurgeDelete(r) \/ Drop(r) \/ Release(r)
=============================================================================
