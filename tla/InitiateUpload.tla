--------------------------- MODULE InitiateUpload ---------------------------
(***************************************************************************)
(* InitiateUploadUseCase.execute, the handler of POST /v1/uploads: the     *)
(* deduplication check, then a new session under a fresh id.               *)
(***************************************************************************)
EXTENDS UploadState

IsDuplicate(d) == GetByChecksum(d) # None

(* Session bounds the ids uuid4() can still return.                        *)
InitiateCheck(r, d) ==
  LET enter(label, s, code) ==
        Becomes(r, NewRequest(label, "initiate", s, NewUploadSession(d), None, code))
  IN /\ At(r, "idle")
     /\ \/ IsDuplicate(d) /\ enter("reply", None, 200) /\ UNCHANGED issued
        \/ /\ ~IsDuplicate(d)
           /\ \E s \in Session \ issued :
                enter("init_save", s, 0) /\ issued' = issued \cup {s}
     /\ UNCHANGED <<redisVars, s3Vars, events, acked>>

InitiateSave(r) ==
  /\ At(r, "init_save")
  /\ SaveSession(req[r].on, req[r].snap)
  /\ Answer(r, 201)
  /\ UNCHANGED <<chunk, lock, registry, s3Vars, events, histVars>>
=============================================================================
