----------------------------- MODULE QueryUpload -----------------------------
(***************************************************************************)
(* query_session, the handler of HEAD /v1/uploads/{id}: one read, without  *)
(* the lock.  The response tells the offset of the session read (snap).    *)
(***************************************************************************)
EXTENDS UploadState

QueryGet(r, s) ==
  /\ At(r, "idle")
  /\ Becomes(r, NewRequest("reply", "head", s, session[s], None,
                           IF session[s] = None THEN 404 ELSE 200))
  /\ UNCHANGED <<redisVars, s3Vars, events, histVars>>
=============================================================================
