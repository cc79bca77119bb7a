----------------------------- MODULE EntityProofs -----------------------------
(***************************************************************************)
(* Sessions stored in Redis are sound, for any number of requests, under   *)
(* all faults: handlers save the entity as they read it before the lock,   *)
(* stale perhaps, but each is one that was stored, changed by the entity's *)
(* own methods under the checks the handler made of it.  And when requests *)
(* do not overlap, they keep more.                                         *)
(***************************************************************************)
EXTENDS UploadServiceProofs

(* The labels from which the entity read may still be saved, and those at  *)
(* which a finalize knows that all its bytes are there.                    *)
PcWhole  == {"final_lock", "scan", "s3_initiate"} \cup PcS3
PcSaving == {"init_save", "mal_save", "fail_save"} \cup PcPatch \cup PcWhole

Sound(u) ==
  /\ u.offset <= u.decl.total
  /\ u.status \notin {"COMPLETED", "ABORTED"}
  /\ u.status = "FAILED" => AllBytesUploaded(u)
  /\ u.status = "INITIATED" <=> u.offset = 0

(* What the entity u is to a request at a label.                           *)
MayHold(label, u) ==
  /\ label \in PcSaving => Sound(u)
  /\ label \in PcWhole => AllBytesUploaded(u)

SnapsAreSound == \A r \in Req : MayHold(req[r].pc, req[r].snap)

EntityInv == StoredSessionSound /\ SnapsAreSound

-----------------------------------------------------------------------------
(* The entity's methods, under the checks their callers make.              *)
LEMMA MethodsAreSound ==
  /\ \A d \in Declarations : Sound(NewUploadSession(d))
  /\ \A u \in UploadSessions, n \in Nat :
       Sound(u) /\ MayAdvance(u, n) => Sound(UpdateOffset(u, n))
  /\ \A u \in UploadSessions : Sound(u) /\ AllBytesUploaded(u) => Sound(Failed(u))
<1>1. \A d \in Declarations : d.total \in Nat \ {0}
  BY DeclarationAssumption DEF DeclarationType
<1>2. ASSUME NEW d \in Declarations PROVE Sound(NewUploadSession(d))
  BY <1>1 DEF NewUploadSession, Sound
<1>3. ASSUME NEW u \in UploadSessions, NEW n \in Nat, Sound(u), MayAdvance(u, n)
      PROVE  Sound(UpdateOffset(u, n))
  <2> DEFINE v == UpdateOffset(u, n)
  <2>1. u.offset \in Nat /\ u.decl.total \in Nat /\ u.status \in UploadStatus
    BY <1>1 DEF UploadSessions
  <2>2. /\ v.offset = u.offset + n /\ v.decl = u.decl
        /\ v.status = IF u.status = "INITIATED" THEN "UPLOADING" ELSE u.status
    BY DEF UpdateOffset, UploadSessions
  <2> HIDE DEF v
  <2>3. n > 0 /\ u.offset + n <= u.decl.total
    BY <1>3 DEF MayAdvance
  <2>4. u.status # "FAILED"
    BY <1>3, <2>1, <2>3 DEF Sound, AllBytesUploaded
  <2>5. v.status \notin {"INITIATED", "COMPLETED", "ABORTED", "FAILED"}
    BY <1>3, <2>2, <2>4 DEF Sound
  <2>6. v.offset # 0 /\ v.offset <= v.decl.total
    BY <2>1, <2>2, <2>3
  <2>7. Sound(v)
    BY <2>5, <2>6 DEF Sound
  <2> QED BY <2>7 DEF v
<1>4. ASSUME NEW u \in UploadSessions, Sound(u), AllBytesUploaded(u)
      PROVE  Sound(Failed(u))
  <2>1. u.decl \in Declarations
    BY DEF UploadSessions
  <2>2. /\ Failed(u).offset = u.offset /\ Failed(u).decl = u.decl
        /\ Failed(u).status = "FAILED"
    BY DEF Failed, UploadSessions
  <2> QED BY <1>1, <1>4, <2>1, <2>2 DEF Sound, AllBytesUploaded
<1> QED BY <1>2, <1>3, <1>4

(* Stored entities are sound.                                              *)
LEMMA StoredAreSound ==
  StoredSessionSound <=> \A s \in Session : session[s] # None => Sound(session[s])
BY DEF StoredSessionSound, Sound

-----------------------------------------------------------------------------
(* Records: where a request goes, and with which session and entity.       *)
Moves(r, label, s, u) ==
  \E q : Becomes(r, q) /\ q.pc = label /\ q.on = s /\ q.snap = u

(* It goes on inside its handler, or out of it, with those it has.         *)
Carries(r, label) == Moves(r, label, req[r].on, req[r].snap)

(* The forms in which the handlers write such a change.                    *)
LEMMA MoveForms ==
  ASSUME ReqOK, NEW r \in Req
  PROVE  /\ \A label : Go(r, label) => Carries(r, label)
         /\ \A label, u : GoWith(r, label, u) => Moves(r, label, req[r].on, u)
         /\ \A code : Leave(r, code) => Carries(r, "release")
         /\ \A code, u : Conclude(r, code, u) => Moves(r, "purge_scan", req[r].on, u)
         /\ \A code : Answer(r, code) => Carries(r, "reply")
         /\ \A label, op, s, u, a, code :
              Becomes(r, NewRequest(label, op, s, u, a, code)) => Moves(r, label, s, u)
<1>1. req[r] \in Requests
  BY DEF ReqOK
<1>2. ASSUME NEW label, NEW op, NEW s, NEW u, NEW a, NEW code,
             Becomes(r, NewRequest(label, op, s, u, a, code))
      PROVE  Moves(r, label, s, u)
  <2> DEFINE q == NewRequest(label, op, s, u, a, code)
  <2>1. q.pc = label /\ q.on = s /\ q.snap = u
    BY DEF NewRequest
  <2> QED BY <1>2, <2>1 DEF Moves
<1>3. ASSUME NEW code, Answer(r, code) PROVE Carries(r, "reply")
  BY <1>2, <1>3 DEF Answer, Carries
<1>4. ASSUME NEW label, Go(r, label) PROVE Carries(r, label)
  <2> DEFINE q == [req[r] EXCEPT !.pc = label]
  <2>1. q.pc = label /\ q.on = req[r].on /\ q.snap = req[r].snap
    BY <1>1 DEF Requests
  <2> QED BY <1>4, <2>1 DEF Go, Carries, Moves
<1>5. ASSUME NEW label, NEW u, GoWith(r, label, u)
      PROVE  Moves(r, label, req[r].on, u)
  <2> DEFINE q == [req[r] EXCEPT !.pc = label, !.snap = u]
  <2>1. q.pc = label /\ q.on = req[r].on /\ q.snap = u
    BY <1>1 DEF Requests
  <2> QED BY <1>5, <2>1 DEF GoWith, Moves
<1>6. ASSUME NEW code, Leave(r, code) PROVE Carries(r, "release")
  <2> DEFINE q == [req[r] EXCEPT !.pc = "release", !.status = code]
  <2>1. q.pc = "release" /\ q.on = req[r].on /\ q.snap = req[r].snap
    BY <1>1 DEF Requests
  <2> QED BY <1>6, <2>1 DEF Leave, Carries, Moves
<1>7. ASSUME NEW code, NEW u, Conclude(r, code, u)
      PROVE  Moves(r, "purge_scan", req[r].on, u)
  <2> DEFINE q == [req[r] EXCEPT !.pc = "purge_scan", !.status = code, !.snap = u]
  <2>1. q.pc = "purge_scan" /\ q.on = req[r].on /\ q.snap = u
    BY <1>1 DEF Requests
  <2> QED BY <1>7, <2>1 DEF Conclude, Moves
<1> QED BY <1>2, <1>3, <1>4, <1>5, <1>6, <1>7

(* The steps that change a record in a way of their own.                   *)
LEMMA CollectForms ==
  ASSUME ReqOK, NEW r \in Req
  PROVE  /\ PurgeScan(r) => Carries(r, "purge_delete")
         /\ S3Initiate(r) => Carries(r, "s3_part")
         /\ Scan(r) => \/ Carries(r, "s3_initiate") \/ Carries(r, "scan")
                       \/ Moves(r, "mal_save", req[r].on, Failed(req[r].snap))
         /\ S3Part(r) => Carries(r, "s3_part") \/ Carries(r, "s3_complete")
<1>1. req[r] \in Requests
  BY DEF ReqOK
<1>2. ASSUME NEW q, NEW label, Becomes(r, q),
             q.pc = label /\ q.on = req[r].on /\ q.snap = req[r].snap
      PROVE  Carries(r, label)
  BY <1>2 DEF Carries, Moves
<1>3. ASSUME PurgeScan(r) PROVE Carries(r, "purge_delete")
  <2> DEFINE q == [req[r] EXCEPT !.pc = "purge_delete",
                                 !.found = StoredIndices(req[r].on)]
  <2>1. q.pc = "purge_delete" /\ q.on = req[r].on /\ q.snap = req[r].snap
    BY <1>1 DEF Requests
  <2>2. Becomes(r, q)
    BY <1>3 DEF PurgeScan
  <2> HIDE DEF q
  <2> QED BY <1>2, <2>1, <2>2
<1>4. ASSUME S3Initiate(r) PROVE Carries(r, "s3_part")
  <2>1. PICK id \in UploadId : Becomes(r, [req[r] EXCEPT !.pc = "s3_part", !.upload = id])
    BY <1>4 DEF S3Initiate
  <2> DEFINE q == [req[r] EXCEPT !.pc = "s3_part", !.upload = id]
  <2>2. q.pc = "s3_part" /\ q.on = req[r].on /\ q.snap = req[r].snap
    BY <1>1 DEF Requests
  <2>3. Becomes(r, q)
    BY <2>1
  <2> HIDE DEF q
  <2> QED BY <1>2, <2>2, <2>3
<1>5. ASSUME Scan(r)
      PROVE  \/ Carries(r, "s3_initiate") \/ Carries(r, "scan")
             \/ Moves(r, "mal_save", req[r].on, Failed(req[r].snap))
  <2> DEFINE i == Len(req[r].seen)
             q == [req[r] EXCEPT !.seen = Append(@, chunk[req[r].on][i])]
  <2>1. q.pc = "scan" /\ q.on = req[r].on /\ q.snap = req[r].snap
    BY <1>1, <1>5 DEF Requests, Scan, At
  <2>2. \/ Go(r, "s3_initiate") \/ Becomes(r, q)
        \/ GoWith(r, "mal_save", Failed(req[r].snap))
    BY <1>5 DEF Scan
  <2> HIDE DEF q
  <2> QED BY <1>2, <2>1, <2>2, MoveForms
<1>6. ASSUME S3Part(r)
      PROVE  Carries(r, "s3_part") \/ Carries(r, "s3_complete")
  <2> DEFINE i == Len(req[r].parts)
             q == [req[r] EXCEPT !.parts = Append(@, chunk[req[r].on][i])]
  <2>1. q.pc = "s3_part" /\ q.on = req[r].on /\ q.snap = req[r].snap
    BY <1>1, <1>6 DEF Requests, S3Part, At
  <2>2. Go(r, "s3_complete") \/ Becomes(r, q)
    BY <1>6 DEF S3Part, UploadPart
  <2> HIDE DEF q
  <2> QED BY <1>2, <2>1, <2>2, MoveForms
<1> QED BY <1>3, <1>4, <1>5, <1>6

-----------------------------------------------------------------------------
(* Where a step takes its request, the request may hold its entity.        *)
Allowed(r) == \E label, s, u : Moves(r, label, s, u) /\ MayHold(label, u)

(* Either it may by what it is, or nothing is going to be saved.           *)
LEMMA AllowedForms ==
  ASSUME NEW r \in Req
  PROVE  /\ \A label, s, u : Moves(r, label, s, u) /\ MayHold(label, u) => Allowed(r)
         /\ \A label, s, u : Moves(r, label, s, u) /\ label \notin PcSaving => Allowed(r)
<1>1. \A label : label \in PcWhole => label \in PcSaving
  BY DEF PcSaving
<1> QED BY <1>1 DEF Allowed, MayHold

(* The labels at which no entity is going to be saved.                     *)
LEMMA DoneLabels ==
  \A label \in {"idle", "reply", "abort_lock", "release", "purge_scan",
                "purge_delete", "drop", "register", "publish"} : label \notin PcSaving
BY DEF PcSaving, PcWhole, PcPatch, PcS3

(* A request comes in with an entity that is new or stored.                *)
LEMMA ArriveAllowed ==
  ASSUME TypeInv, StoredSessionSound, NEW r \in Req, Arrive(r)
  PROVE  Allowed(r)
<1>1. ReqOK
  BY DEF TypeInv
<1>2. CASE \E d \in Declarations : InitiateCheck(r, d)
  <2>1. PICK d \in Declarations : InitiateCheck(r, d)
    BY <1>2
  <2> DEFINE u == NewUploadSession(d)
  <2>2. \/ \E s : Moves(r, "init_save", s, u)
        \/ \E s : Moves(r, "reply", s, u)
    BY <1>1, <2>1, MoveForms DEF InitiateCheck
  <2>3. MayHold("init_save", u)
    BY MethodsAreSound DEF MayHold, PcWhole, PcS3
  <2> QED BY <2>2, <2>3, AllowedForms, DoneLabels
<1>3. ASSUME NEW s \in Session,
             \/ \E op, code : Refuse(r, op, s, code)
             \/ \E op, code : Becomes(r, NewRequest("reply", op, s, session[s], None, code))
             \/ \E op, a : Receive(r, op, s, a, "abort_lock")
      PROVE  Allowed(r)
  BY <1>1, <1>3, MoveForms, AllowedForms, DoneLabels DEF Refuse, Receive
<1>4. ASSUME NEW s \in Session, session[s] # None,
             NEW op, NEW a, NEW label, Receive(r, op, s, a, label),
             \/ label = "patch_lock"
             \/ label = "final_lock" /\ AllBytesUploaded(session[s])
      PROVE  Allowed(r)
  <2>1. Sound(session[s])
    BY <1>4, StoredAreSound
  <2>2. MayHold(label, session[s])
    BY <1>4, <2>1 DEF MayHold, PcWhole, PcS3
  <2> QED BY <1>1, <1>4, <2>2, MoveForms, AllowedForms DEF Receive
<1>5. ASSUME NEW s \in Session, NEW a, PatchGet(r, s, a) PROVE Allowed(r)
  BY <1>3, <1>4, <1>5 DEF PatchGet
<1>6. ASSUME NEW s \in Session, QueryGet(r, s) \/ AbortGet(r, s) \/ FinalizeGet(r, s)
      PROVE  Allowed(r)
  BY <1>3, <1>4, <1>6 DEF QueryGet, AbortGet, FinalizeGet
<1> QED BY <1>2, <1>5, <1>6 DEF Arrive

(* A handler goes on with its entity, or with what a method made of it.    *)
LEMMA HandleAllowed ==
  ASSUME TypeInv, NEW r \in Req, MayHold(req[r].pc, req[r].snap), Handle(r)
  PROVE  Allowed(r)
<1> DEFINE u == req[r].snap
<1>1. ReqOK
  BY DEF TypeInv
<1>2. ASSUME \E label \in {"reply", "release", "purge_delete", "drop", "register",
                           "publish"} : Carries(r, label)
      PROVE  Allowed(r)
  BY <1>2, AllowedForms, DoneLabels DEF Carries
<1>3. ASSUME \E v : Moves(r, "purge_scan", req[r].on, v) PROVE Allowed(r)
  BY <1>3, AllowedForms, DoneLabels
<1>4. ASSUME NEW label \in PcWhole, req[r].pc \in PcWhole, Carries(r, label)
      PROVE  Allowed(r)
  <2>1. MayHold(label, u)
    BY <1>4 DEF MayHold, PcSaving
  <2> QED BY <1>4, <2>1, AllowedForms DEF Carries
<1>5. ASSUME NEW label \in {"mal_save", "fail_save"}, req[r].pc \in PcWhole,
             Moves(r, label, req[r].on, Failed(u))
      PROVE  Allowed(r)
  <2>1. u \in UploadSessions
    BY <1>1, <1>5, PcTypes, InsideFacts DEF PcWhole, PcS3
  <2>2. Sound(u) /\ AllBytesUploaded(u)
    BY <1>5 DEF MayHold, PcSaving
  <2>3. MayHold(label, Failed(u))
    BY <2>1, <2>2, MethodsAreSound DEF MayHold, PcWhole, PcS3
  <2> QED BY <1>5, <2>3, AllowedForms
<1>6. CASE InitiateSave(r) \/ Release(r)
  BY <1>1, <1>2, <1>6, MoveForms DEF InitiateSave, Release
<1>7. CASE Respond(r)
  <2>1. Moves(r, "idle", None, None)
    BY <1>1, <1>7, MoveForms DEF Respond, IdleRequest
  <2> QED BY <2>1, AllowedForms, DoneLabels
<1>8. CASE PatchLock(r)
  <2>1. CASE Go(r, "patch_store")
    <3>1. MayHold("patch_store", u)
      BY <1>8 DEF PatchLock, At, MayHold, PcSaving, PcPatch, PcWhole, PcS3
    <3> QED BY <1>1, <2>1, <3>1, MoveForms, AllowedForms DEF Carries
  <2>2. CASE \E code : Leave(r, code) \/ Answer(r, code)
    BY <1>1, <1>2, <2>2, MoveForms
  <2> QED BY <1>8, <2>1, <2>2 DEF PatchLock
<1>9. CASE PatchStore(r)
  <2> DEFINE n == Size[req[r].arg.data]
  <2>1. req[r].pc = "patch_store"
    BY <1>9 DEF PatchStore, At
  <2>2. u \in UploadSessions /\ req[r].arg \in ChunkRequests
    BY <1>1, <2>1, PcTypes, InsideFacts DEF PcPatch
  <2>3. n \in Nat
    BY <2>2, StateAssumption DEF ChunkRequestType
  <2>4. CASE MayAdvance(u, n) /\ GoWith(r, "patch_save", UpdateOffset(u, n))
    <3>1. Sound(u)
      BY <2>1 DEF MayHold, PcSaving, PcPatch
    <3>2. Sound(UpdateOffset(u, n))
      BY <2>2, <2>3, <2>4, <3>1, MethodsAreSound
    <3>3. MayHold("patch_save", UpdateOffset(u, n))
      BY <3>2 DEF MayHold, PcWhole, PcS3
    <3>4. Moves(r, "patch_save", req[r].on, UpdateOffset(u, n))
      BY <1>1, <2>4, MoveForms
    <3> QED BY <3>3, <3>4, AllowedForms
  <2>5. CASE \E code : Leave(r, code)
    BY <1>1, <1>2, <2>5, MoveForms
  <2> QED BY <1>9, <2>4, <2>5 DEF PatchStore
<1>10. CASE PatchSave(r) \/ FailSave(r)
  BY <1>1, <1>2, <1>10, MoveForms DEF PatchSave, FailSave
<1>11. CASE AbortLock(r)
  BY <1>1, <1>2, <1>3, <1>11, MoveForms DEF AbortLock
<1>12. CASE MalwareSave(r) \/ Publish(r)
  BY <1>1, <1>3, <1>12, MoveForms DEF MalwareSave, Publish
<1>13. CASE PurgeScan(r)
  BY <1>1, <1>2, <1>13, CollectForms
<1>14. CASE PurgeDelete(r) \/ Drop(r) \/ Register(r)
  BY <1>1, <1>2, <1>14, MoveForms DEF PurgeDelete, Drop, Register
<1>15. CASE FinalizeLock(r)
  BY <1>1, <1>2, <1>4, <1>15, MoveForms DEF FinalizeLock, At, PcWhole
<1>16. CASE Scan(r)
  <2>1. req[r].pc \in PcWhole
    BY <1>16 DEF Scan, At, PcWhole
  <2> QED BY <1>1, <1>4, <1>5, <1>16, <2>1, CollectForms DEF PcWhole
<1>17. CASE S3Initiate(r) \/ S3Part(r)
  <2>1. req[r].pc \in PcWhole
    BY <1>17 DEF S3Initiate, S3Part, At, PcWhole, PcS3
  <2> QED BY <1>1, <1>4, <1>17, <2>1, CollectForms DEF PcWhole, PcS3
<1>18. CASE S3Complete(r)
  <2>1. req[r].pc \in PcWhole
    BY <1>18 DEF S3Complete, At, PcWhole, PcS3
  <2>2. Carries(r, "register") \/ Carries(r, "s3_abort")
    BY <1>1, <1>18, MoveForms DEF S3Complete
  <2> QED BY <1>2, <1>4, <2>1, <2>2 DEF PcWhole, PcS3
<1>19. CASE S3Abort(r)
  <2>1. req[r].pc \in PcWhole
    BY <1>19 DEF S3Abort, At, PcWhole, PcS3
  <2> QED BY <1>1, <1>5, <1>19, <2>1, MoveForms DEF S3Abort
<1> QED BY <1>6, <1>7, <1>8, <1>9, <1>10, <1>11, <1>12, <1>13, <1>14, <1>15,
           <1>16, <1>17, <1>18, <1>19
        DEF Handle, Work, PatchStep, FinalizeStep, CleanUpStep

(* A fault ends the request, or makes finalize give it up as failed.       *)
LEMMA FaultAllowed ==
  ASSUME TypeInv, NEW r \in Req, MayHold(req[r].pc, req[r].snap), Fault(r)
  PROVE  Allowed(r)
<1> DEFINE u == req[r].snap
<1>1. ReqOK
  BY DEF TypeInv
<1>2. CASE Crash(r)
  <2>1. Moves(r, "idle", None, None)
    BY <1>1, <1>2, MoveForms DEF Crash, IdleRequest
  <2> QED BY <2>1, AllowedForms, DoneLabels
<1>3. ASSUME \E code : Leave(r, code) \/ Answer(r, code) PROVE Allowed(r)
  BY <1>1, <1>3, MoveForms, AllowedForms, DoneLabels DEF Carries
<1>4. CASE CutShort(r) \/ PublishRaises(r)
  BY <1>3, <1>4 DEF CutShort, PublishRaises
<1>5. CASE Go(r, "s3_abort") /\ req[r].pc \in PcS3
  <2>1. MayHold("s3_abort", u)
    BY <1>5 DEF MayHold, PcSaving, PcWhole, PcS3
  <2> QED BY <1>1, <1>5, <2>1, MoveForms, AllowedForms DEF Carries
<1>6. CASE S3Raises(r)
  BY <1>3, <1>5, <1>6 DEF S3Raises, At, PcS3
<1>7. CASE S3AbortFails(r)
  <2>1. req[r].pc = "s3_abort" /\ GoWith(r, "fail_save", Failed(u))
    BY <1>7 DEF S3AbortFails, At
  <2>2. u \in UploadSessions
    BY <1>1, <2>1, PcTypes, InsideFacts
  <2>3. Sound(u) /\ AllBytesUploaded(u)
    BY <2>1 DEF MayHold, PcSaving, PcWhole, PcS3
  <2>4. MayHold("fail_save", Failed(u))
    BY <2>2, <2>3, MethodsAreSound DEF MayHold, PcWhole, PcS3
  <2>5. Moves(r, "fail_save", req[r].on, Failed(u))
    BY <1>1, <2>1, MoveForms
  <2> QED BY <2>4, <2>5, AllowedForms
<1> QED BY <1>2, <1>4, <1>6, <1>7 DEF Fault, RedisRaises, Cancel

-----------------------------------------------------------------------------
(* How a step of a request changes the stored sessions.                    *)
LEMMA SessionChanges ==
  ASSUME ReqOK, NEW r \in Req, Arrive(r) \/ Handle(r) \/ Fault(r)
  PROVE  \/ session' = session
         \/ /\ req[r].pc \in {"init_save", "patch_save", "mal_save", "fail_save"}
            /\ SaveSession(req[r].on, req[r].snap)
         \/ At(r, "drop") /\ DeleteSession(req[r].on)
<1>1. CASE Arrive(r)
  BY <1>1
     DEF Arrive, InitiateCheck, PatchGet, QueryGet, AbortGet, FinalizeGet, redisVars
<1>2. CASE Fault(r)
  BY <1>2
     DEF Fault, Crash, RedisRaises, Cancel, CutShort, S3Raises, S3AbortFails,
         PublishRaises, redisVars
<1>3. CASE Handle(r)
  BY <1>3
     DEF Handle, Work, InitiateSave, PatchStep, PatchLock, PatchStore, PatchSave,
         AbortLock, FinalizeStep, FinalizeLock, Scan, MalwareSave, S3Initiate,
         S3Part, S3Complete, S3Abort, FailSave, Register, Publish, CleanUpStep,
         PurgeScan, PurgeDelete, Drop, Release, Respond, redisVars, At,
         SaveSnapshotAs
<1> QED BY <1>1, <1>2, <1>3

(* What is saved was allowed to be.                                        *)
LEMMA StoredStaySound ==
  ASSUME TypeInv, EntityInv, NEW r \in Req, Arrive(r) \/ Handle(r) \/ Fault(r)
  PROVE  StoredSessionSound'
<1>1. session \in [Session -> {None} \cup UploadSessions] /\ ReqOK
  BY DEF TypeInv, StoreOK
<1>2. \A s \in Session : session[s] # None => Sound(session[s])
  BY StoredAreSound DEF EntityInv
<1>3. SUFFICES \A s \in Session : session'[s] # None => Sound(session'[s])
  BY DEF StoredSessionSound, Sound
<1>4. CASE session' = session
  BY <1>2, <1>4
<1>5. CASE /\ req[r].pc \in {"init_save", "patch_save", "mal_save", "fail_save"}
           /\ SaveSession(req[r].on, req[r].snap)
  <2>1. Sound(req[r].snap)
    BY <1>5 DEF EntityInv, SnapsAreSound, MayHold, PcSaving, PcPatch
  <2> QED BY <1>1, <1>2, <1>5, <2>1 DEF SaveSession
<1>6. CASE DeleteSession(req[r].on)
  BY <1>1, <1>2, <1>6 DEF DeleteSession
<1> QED BY <1>1, <1>4, <1>5, <1>6, SessionChanges

(* So every step keeps the invariant.                                      *)
LEMMA EntityStep == TypeInv /\ EntityInv /\ [Next]_vars => EntityInv'
<1> SUFFICES ASSUME TypeInv, EntityInv, [Next]_vars PROVE EntityInv'
  OBVIOUS
<1>1. session \in [Session -> {None} \cup UploadSessions] /\ ReqOK
  BY DEF TypeInv, StoreOK
<1>2. ASSUME NEW r \in Req, Arrive(r) \/ Handle(r) \/ Fault(r) PROVE EntityInv'
  <2>1. Allowed(r)
    BY <1>2, ArriveAllowed, HandleAllowed, FaultAllowed DEF EntityInv, SnapsAreSound
  <2>2. PICK label, s, u : Moves(r, label, s, u) /\ MayHold(label, u)
    BY <2>1 DEF Allowed
  <2>3. PICK q : Becomes(r, q) /\ q.pc = label /\ q.snap = u
    BY <2>2 DEF Moves
  <2>4. ASSUME NEW x \in Req PROVE MayHold(req'[x].pc, req'[x].snap)
    <3>1. CASE x = r
      BY <1>1, <2>2, <2>3, <3>1 DEF Becomes, ReqOK
    <3>2. CASE x # r
      <4>1. req'[x] = req[x]
        BY <1>1, <2>3, <3>2 DEF Becomes, ReqOK
      <4> QED BY <4>1 DEF EntityInv, SnapsAreSound
    <3> QED BY <3>1, <3>2
  <2>5. SnapsAreSound'
    BY <2>4 DEF SnapsAreSound, MayHold
  <2> QED BY <1>2, <2>5, StoredStaySound DEF EntityInv
<1>3. ASSUME NEW s \in Session, LockExpires(s) \/ KeyExpires(s) PROVE EntityInv'
  <2>1. req' = req /\ (session' = session \/ DeleteSession(s))
    BY <1>3 DEF LockExpires, KeyExpires
  <2>2. StoredSessionSound'
    BY <1>1, <2>1 DEF EntityInv, StoredSessionSound, DeleteSession
  <2> QED BY <2>1, <2>2 DEF EntityInv, SnapsAreSound, MayHold
<1>4. CASE UNCHANGED vars
  BY <1>4 DEF vars, redisVars, EntityInv, StoredSessionSound, SnapsAreSound, MayHold
<1> QED BY <1>2, <1>3, <1>4 DEF Next

(* At first there is neither a session nor a request.                      *)
LEMMA EntityInit == Init => EntityInv
BY DoneLabels
   DEF Init, InitState, IdleRequest, NewRequest, EntityInv, StoredSessionSound,
       SnapsAreSound, MayHold, PcSaving

(* A stored offset never passes the declared size, and a stored status is  *)
(* what it should be, under all faults, lapsing locks included: saving a   *)
(* stale snapshot may lose progress, but not make the session unsound.     *)
THEOREM StoredSessionsAreSound == Spec => []StoredSessionSound
<1>1. Init => TypeInv /\ EntityInv
  BY InitType, EntityInit
<1>2. TypeInv /\ EntityInv /\ [Next]_vars => (TypeInv /\ EntityInv)'
  BY TypeStep, EntityStep
<1>3. TypeInv /\ EntityInv => StoredSessionSound
  BY DEF EntityInv
<1> QED BY <1>1, <1>2, <1>3, PTL DEF Spec

-----------------------------------------------------------------------------
(***************************************************************************)
(* What the protocol guarantees when requests do not overlap, for any      *)
(* number of sessions and chunks: progress is kept, chunks do not outlive  *)
(* their session, a failed session is not sent.  Workers may die or stop,  *)
(* locks lapse, and every call fail, but keys do not expire.               *)
(***************************************************************************)

OneAtATime == \A x, y \in Req : x = y

(* A single request knows the stored session: it is the entity it read,    *)
(* until it changes that.                                                  *)
PcSending == {"final_lock", "scan", "s3_initiate"} \cup PcS3 \cup PcCommitted
PcCurrent == {"patch_lock", "patch_store", "abort_lock"} \cup PcSending
PcChanged == {"patch_save", "mal_save", "fail_save"}
PcPurging == {"purge_scan", "purge_delete", "drop"}

(* What a request at a label knows about session s, having the entity u,   *)
(* where the sessions and chunks stored and the ids used are these.        *)
Known(label, s, u, sessions, chunks, used) ==
  /\ label = "init_save" =>
       sessions[s] = None /\ s \in used /\ u = NewUploadSession(u.decl)
  /\ label \in PcCurrent => sessions[s] = u
  /\ label \in PcSending => u.status # "FAILED"
  /\ label \in PcChanged => sessions[s] # None /\ sessions[s].offset <= u.offset
  /\ label \in PcPurging => sessions[s] # None
  /\ label = "drop" => \A i \in Index : chunks[s][i] = None

Knows(label, s, u)    == Known(label, s, u, session, chunk, issued)
WillKnow(label, s, u) == Known(label, s, u, session', chunk', issued')

(* The scan of the keys has found all chunks there are.                    *)
FoundAll(q) == q.pc = "purge_delete" => StoredIndices(q.on) \subseteq q.found

UnusedIds == \A s \in Session \ issued : session[s] = None

SeqInv ==
  /\ ChunksHaveSession /\ UnusedIds
  /\ \A r \in Req : Knows(req[r].pc, req[r].on, req[r].snap) /\ FoundAll(req[r])

-----------------------------------------------------------------------------
(* There is only one request a step has to establish the invariant for.    *)
LEMMA OneKnows ==
  ASSUME ReqOK, OneAtATime, NEW r \in Req, NEW label, NEW s, NEW u,
         Moves(r, label, s, u), WillKnow(label, s, u), label # "purge_delete",
         ChunksHaveSession', UnusedIds'
  PROVE  SeqInv'
<1>1. PICK q : Becomes(r, q) /\ q.pc = label /\ q.on = s /\ q.snap = u
  BY DEF Moves
<1>2. req'[r] = q /\ \A x \in Req : x = r
  BY <1>1 DEF Becomes, ReqOK, OneAtATime
<1>3. WillKnow(req'[r].pc, req'[r].on, req'[r].snap)
  BY <1>1, <1>2
<1>4. req'[r].pc # "purge_delete"
  BY <1>1, <1>2
<1> QED BY <1>2, <1>3, <1>4 DEF SeqInv, Knows, WillKnow, FoundAll

(* Most steps change neither sessions nor chunks.                          *)
Quiet == session' = session /\ chunk' = chunk /\ issued' = issued

(* ... and keep the invariant if the request knows enough at its new label. *)
LEMMA QuietKnows ==
  ASSUME ReqOK, OneAtATime, SeqInv, Quiet, NEW r \in Req, NEW label, NEW s, NEW u,
         Moves(r, label, s, u), Knows(label, s, u), label # "purge_delete"
  PROVE  SeqInv'
<1>1. ChunksHaveSession' /\ UnusedIds'
  BY DEF SeqInv, Quiet, ChunksHaveSession, HasAnyChunk, UnusedIds
<1>2. WillKnow(label, s, u)
  BY DEF Quiet, Knows, WillKnow, Known
<1> QED BY <1>1, <1>2, OneKnows

(* The labels of a request that is over know nothing.                      *)
LEMMA EndLabels ==
  /\ "purge_delete" \notin {"idle", "reply", "release"}
  /\ \A label \in {"idle", "reply", "release"} :
       \A s, u : Knows(label, s, u) /\ WillKnow(label, s, u)
BY DEF Knows, WillKnow, Known, PcCurrent, PcSending, PcChanged, PcPurging, PcS3,
       PcCommitted

(* It is over, and the store unchanged.                                    *)
LEMMA QuietEnd ==
  ASSUME ReqOK, OneAtATime, SeqInv, Quiet, NEW r \in Req,
         \E label \in {"idle", "reply", "release"} : \E s : \E u : Moves(r, label, s, u)
  PROVE  SeqInv'
BY QuietKnows, EndLabels

(* It goes on with the entity it has, which is still the stored one.       *)
LEMMA QuietOnward ==
  ASSUME ReqOK, OneAtATime, SeqInv, Quiet, NEW r \in Req, req[r].pc \in PcCurrent,
         NEW label \in PcCurrent, label \in PcSending => req[r].pc \in PcSending,
         Carries(r, label)
  PROVE  SeqInv'
<1>1. Knows(req[r].pc, req[r].on, req[r].snap)
  BY DEF SeqInv
<1>2. /\ label # "purge_delete" /\ label # "init_save" /\ label # "drop"
      /\ label \notin PcChanged /\ label \notin PcPurging
  BY DEF PcCurrent, PcSending, PcS3, PcCommitted, PcChanged, PcPurging
<1>3. Knows(label, req[r].on, req[r].snap)
  BY <1>1, <1>2 DEF Knows, Known
<1> QED BY <1>2, <1>3, QuietKnows DEF Carries

(* A method has changed the entity; the stored one stays for now.          *)
LEMMA QuietChange ==
  ASSUME TypeInv, OneAtATime, SeqInv, Quiet, NEW r \in Req, req[r].pc \in PcCurrent,
         NEW u, NEW label \in {"mal_save", "fail_save", "purge_scan"},
         label # "purge_scan" => u.offset = req[r].snap.offset,
         Moves(r, label, req[r].on, u)
  PROVE  SeqInv'
<1>1. Knows(req[r].pc, req[r].on, req[r].snap) /\ ReqOK
  BY DEF SeqInv, TypeInv
<1>2. req[r].snap \in UploadSessions
  BY <1>1, PcTypes, InsideFacts DEF PcCurrent, PcSending, PcS3, PcCommitted
<1>3. req[r].snap # None /\ req[r].snap.offset \in Nat
  BY <1>2, StateAssumption DEF UploadSessions
<1>4. session[req[r].on] = req[r].snap
  BY <1>1 DEF Knows, Known
<1>5. Knows(label, req[r].on, u)
  BY <1>3, <1>4
     DEF Knows, Known, PcCurrent, PcSending, PcS3, PcCommitted, PcChanged, PcPurging
<1> QED BY <1>1, <1>5, QuietKnows

-----------------------------------------------------------------------------
(* A request comes in, and reads the session as it is.                     *)
LEMMA ArriveKnows ==
  ASSUME TypeInv, OneAtATime, SeqInv, NEW r \in Req, Arrive(r)
  PROVE  SeqInv'
<1>1. ReqOK
  BY DEF TypeInv
<1>2. ASSUME NEW d \in Declarations, InitiateCheck(r, d) PROVE SeqInv'
  <2> DEFINE u == NewUploadSession(d)
  <2>1. session' = session /\ chunk' = chunk
    BY <1>2 DEF InitiateCheck, redisVars
  <2>2. CASE issued' = issued /\ \E s : Moves(r, "reply", s, u)
    BY <1>1, <2>1, <2>2, QuietEnd DEF Quiet
  <2>3. ASSUME NEW s \in Session \ issued, issued' = issued \cup {s},
               Moves(r, "init_save", s, u)
        PROVE  SeqInv'
    <3>1. ChunksHaveSession' /\ UnusedIds'
      BY <2>1, <2>3 DEF SeqInv, ChunksHaveSession, HasAnyChunk, UnusedIds
    <3>2. u = NewUploadSession(u.decl)
      BY DEF NewUploadSession
    <3>3. session'[s] = None /\ s \in issued'
      BY <2>1, <2>3 DEF SeqInv, UnusedIds
    <3>4. WillKnow("init_save", s, u)
      BY <3>2, <3>3
         DEF WillKnow, Known, PcCurrent, PcSending, PcS3, PcCommitted, PcChanged, PcPurging
    <3> QED BY <1>1, <2>3, <3>1, <3>4, OneKnows
  <2>4. \/ issued' = issued /\ \E s : Moves(r, "reply", s, u)
        \/ \E s \in Session \ issued :
             issued' = issued \cup {s} /\ Moves(r, "init_save", s, u)
    BY <1>1, <1>2, MoveForms DEF InitiateCheck
  <2> QED BY <2>2, <2>3, <2>4
<1>3. ASSUME NEW s \in Session, Quiet,
             \/ \E op, code : Refuse(r, op, s, code)
             \/ \E op, code : Becomes(r, NewRequest("reply", op, s, session[s], None, code))
      PROVE  SeqInv'
  BY <1>1, <1>3, MoveForms, QuietEnd DEF Refuse
<1>4. ASSUME NEW s \in Session, Quiet, NEW op, NEW a, NEW label,
             Receive(r, op, s, a, label),
             \/ label \in {"patch_lock", "abort_lock"}
             \/ label = "final_lock" /\ session[s].status # "FAILED"
      PROVE  SeqInv'
  <2>1. Moves(r, label, s, session[s])
    BY <1>1, <1>4, MoveForms DEF Receive
  <2>2. Knows(label, s, session[s]) /\ label # "purge_delete"
    BY <1>4
       DEF Knows, Known, PcCurrent, PcSending, PcS3, PcCommitted, PcChanged, PcPurging
  <2> QED BY <1>1, <1>4, <2>1, <2>2, QuietKnows
<1>5. ASSUME NEW s \in Session, NEW a, PatchGet(r, s, a) PROVE SeqInv'
  <2>1. Quiet
    BY <1>5 DEF PatchGet, Quiet, redisVars, histVars
  <2> QED BY <1>3, <1>4, <1>5, <2>1 DEF PatchGet
<1>6. ASSUME NEW s \in Session, QueryGet(r, s) \/ AbortGet(r, s) \/ FinalizeGet(r, s)
      PROVE  SeqInv'
  <2>1. Quiet
    BY <1>6 DEF QueryGet, AbortGet, FinalizeGet, Quiet, redisVars, histVars
  <2> QED BY <1>3, <1>4, <1>6, <2>1 DEF QueryGet, AbortGet, FinalizeGet
<1> QED BY <1>2, <1>5, <1>6 DEF Arrive

-----------------------------------------------------------------------------
(* A session is saved: one that is there, or that is new.                  *)
LEMMA SaveKnows ==
  ASSUME TypeInv, OneAtATime, SeqInv, NEW r \in Req,
         req[r].pc \in {"init_save"} \cup PcChanged,
         SaveSession(req[r].on, req[r].snap), chunk' = chunk, issued' = issued,
         NEW label \in {"reply", "release", "purge_scan"},
         label = "purge_scan" => req[r].pc \in PcChanged,
         NEW u, Moves(r, label, req[r].on, u)
  PROVE  SeqInv'
<1> DEFINE s == req[r].on
           v == req[r].snap
<1>1. ReqOK /\ session \in [Session -> {None} \cup UploadSessions]
  BY DEF TypeInv, StoreOK
<1>2. Knows(req[r].pc, s, v)
  BY DEF SeqInv
<1>3. s \in Session /\ v \in UploadSessions
  BY <1>1, PcTypes, InsideFacts DEF PcChanged
<1>4. v # None
  BY <1>3, StateAssumption
<1>5. /\ session'[s] = v
      /\ \A x \in Session \ {s} : session'[x] = session[x]
  BY <1>1, <1>3 DEF SaveSession
<1>6. s \in issued
  <2>1. req[r].pc \in PcChanged => session[s] # None
    BY <1>2 DEF Knows, Known
  <2> QED BY <1>2, <1>3, <2>1 DEF Knows, Known, SeqInv, UnusedIds
<1>7. ChunksHaveSession'
  BY <1>4, <1>5 DEF SeqInv, ChunksHaveSession, HasAnyChunk
<1>8. UnusedIds'
  BY <1>5, <1>6 DEF SeqInv, UnusedIds
<1>9. WillKnow(label, s, u)
  BY <1>4, <1>5
     DEF WillKnow, Known, PcCurrent, PcSending, PcS3, PcCommitted, PcChanged, PcPurging
<1> QED BY <1>1, <1>7, <1>8, <1>9, OneKnows

(* A chunk is stored, of a session that is there.                          *)
LEMMA PatchStoreKnows ==
  ASSUME TypeInv, OneAtATime, SeqInv, NEW r \in Req, PatchStore(r)
  PROVE  SeqInv'
<1> DEFINE s == req[r].on
           u == req[r].snap
           n == Size[req[r].arg.data]
           v == UpdateOffset(u, n)
<1>1. ReqOK /\ session \in [Session -> {None} \cup UploadSessions]
      /\ chunk \in [Session -> [Index -> {None} \cup Payload]]
  BY DEF TypeInv, StoreOK
<1>2. req[r].pc = "patch_store" /\ session' = session /\ issued' = issued
  BY DEF PatchStore, At, histVars
<1>3. s \in Session /\ u \in UploadSessions /\ req[r].arg \in ChunkRequests
  BY <1>1, <1>2, PcTypes, InsideFacts DEF PcPatch
<1>4. n \in Nat /\ u.offset \in Nat /\ u # None
  BY <1>3, StateAssumption DEF ChunkRequestType, UploadSessions
<1>5. session[s] = u
  BY <1>2 DEF SeqInv, Knows, Known, PcCurrent
<1>6. \A x \in Session \ {s} : chunk'[x] = chunk[x]
  BY <1>1, <1>3 DEF PatchStore, SaveChunk
<1>7. ChunksHaveSession' /\ UnusedIds'
  BY <1>2, <1>4, <1>5, <1>6 DEF SeqInv, ChunksHaveSession, HasAnyChunk, UnusedIds
<1>8. CASE \E code : Leave(r, code)
  <2>1. Moves(r, "release", s, u)
    BY <1>1, <1>8, MoveForms DEF Carries
  <2> QED BY <1>1, <1>7, <2>1, EndLabels, OneKnows
<1>9. CASE GoWith(r, "patch_save", v)
  <2>1. Moves(r, "patch_save", s, v)
    BY <1>1, <1>9, MoveForms
  <2>2. v.offset = u.offset + n
    BY <1>3 DEF UpdateOffset, UploadSessions
  <2>3. session'[s] # None /\ session'[s].offset <= v.offset
    BY <1>2, <1>4, <1>5, <2>2
  <2>4. WillKnow("patch_save", s, v)
    BY <2>3
       DEF WillKnow, Known, PcCurrent, PcSending, PcS3, PcCommitted, PcChanged, PcPurging
  <2> QED BY <1>1, <1>7, <2>1, <2>4, OneKnows
<1> QED BY <1>8, <1>9 DEF PatchStore

(* The keys of the chunks are listed.                                      *)
LEMMA PurgeScanKnows ==
  ASSUME TypeInv, OneAtATime, SeqInv, NEW r \in Req, PurgeScan(r)
  PROVE  SeqInv'
<1> DEFINE s == req[r].on
           q == [req[r] EXCEPT !.pc = "purge_delete", !.found = StoredIndices(s)]
<1>1. ReqOK /\ req[r] \in Requests
  BY DEF TypeInv, ReqOK
<1>2. q.pc = "purge_delete" /\ q.on = s /\ q.found = StoredIndices(s)
  BY <1>1 DEF Requests
<1>3. Becomes(r, q) /\ Quiet /\ req[r].pc = "purge_scan"
  BY DEF PurgeScan, Quiet, redisVars, histVars, At
<1> HIDE DEF q
<1>4. req'[r] = q /\ \A x \in Req : x = r
  BY <1>1, <1>3 DEF Becomes, ReqOK, OneAtATime
<1>5. session[s] # None
  BY <1>3 DEF SeqInv, Knows, Known, PcPurging
<1>6. WillKnow(q.pc, q.on, q.snap)
  BY <1>2, <1>3, <1>5
     DEF Quiet, WillKnow, Known, PcCurrent, PcSending, PcS3, PcCommitted, PcChanged,
         PcPurging
<1>7. \A i \in Index : chunk'[q.on][i] # None => i \in q.found
  BY <1>2, <1>3 DEF Quiet, StoredIndices
<1>8. ChunksHaveSession' /\ UnusedIds'
  BY <1>3 DEF SeqInv, Quiet, ChunksHaveSession, HasAnyChunk, UnusedIds
<1> QED BY <1>4, <1>6, <1>7, <1>8
        DEF SeqInv, Knows, WillKnow, FoundAll, StoredIndices

(* All of them are deleted.                                                *)
LEMMA PurgeDeleteKnows ==
  ASSUME TypeInv, OneAtATime, SeqInv, NEW r \in Req, PurgeDelete(r)
  PROVE  SeqInv'
<1> DEFINE s == req[r].on
           found == req[r].found
<1>1. ReqOK /\ chunk \in [Session -> [Index -> {None} \cup Payload]]
  BY DEF TypeInv, StoreOK
<1>2. req[r].pc = "purge_delete" /\ session' = session /\ issued' = issued
  BY DEF PurgeDelete, At, histVars
<1>3. s \in Session
  BY <1>1, <1>2, PcTypes, InsideFacts
<1>4. session[s] # None /\ StoredIndices(s) \subseteq found
  BY <1>2 DEF SeqInv, Knows, Known, PcPurging, FoundAll
<1>5. /\ \A x \in Session \ {s} : chunk'[x] = chunk[x]
      /\ \A i \in Index : chunk'[s][i] = IF i \in found THEN None ELSE chunk[s][i]
  BY <1>1, <1>3 DEF PurgeDelete, DeleteChunks
<1>6. \A i \in Index : chunk'[s][i] = None
  BY <1>4, <1>5 DEF StoredIndices
<1>7. ChunksHaveSession' /\ UnusedIds'
  BY <1>2, <1>5, <1>6 DEF SeqInv, ChunksHaveSession, HasAnyChunk, UnusedIds
<1>8. Moves(r, "drop", s, req[r].snap)
  BY <1>1, MoveForms DEF PurgeDelete, Carries
<1>9. WillKnow("drop", s, req[r].snap)
  BY <1>2, <1>4, <1>6
     DEF WillKnow, Known, PcCurrent, PcSending, PcS3, PcCommitted, PcChanged,
         PcPurging
<1> QED BY <1>1, <1>7, <1>8, <1>9, OneKnows

(* The session is deleted, once it has no chunks.                          *)
LEMMA DropKnows ==
  ASSUME TypeInv, OneAtATime, SeqInv, NEW r \in Req, Drop(r)
  PROVE  SeqInv'
<1> DEFINE s == req[r].on
<1>1. ReqOK /\ session \in [Session -> {None} \cup UploadSessions]
  BY DEF TypeInv, StoreOK
<1>2. /\ req[r].pc = "drop" /\ chunk' = chunk /\ issued' = issued
      /\ session' = [session EXCEPT ![s] = None]
  BY DEF Drop, At, histVars, DeleteSession
<1>3. ~HasAnyChunk(s)
  BY <1>2 DEF SeqInv, Knows, Known, HasAnyChunk
<1>4. ChunksHaveSession' /\ UnusedIds'
  BY <1>1, <1>2, <1>3 DEF SeqInv, ChunksHaveSession, HasAnyChunk, UnusedIds
<1>5. Moves(r, "release", s, req[r].snap)
  BY <1>1, MoveForms DEF Drop, Carries
<1> QED BY <1>1, <1>4, <1>5, EndLabels, OneKnows

-----------------------------------------------------------------------------
(* All steps of a handler.                                                 *)
LEMMA HandleKnows ==
  ASSUME TypeInv, OneAtATime, SeqInv, NEW r \in Req, Handle(r)
  PROVE  SeqInv'
<1> DEFINE u == req[r].snap
<1>1. ReqOK
  BY DEF TypeInv
<1>2. ASSUME Quiet, \E code : Leave(r, code) \/ Answer(r, code) PROVE SeqInv'
  BY <1>1, <1>2, MoveForms, QuietEnd DEF Carries
<1>3. ASSUME req[r].pc \in PcCurrent PROVE u \in UploadSessions
  BY <1>1, <1>3, PcTypes, InsideFacts DEF PcCurrent, PcSending, PcS3, PcCommitted
<1>4. ASSUME req[r].pc \in PcCurrent PROVE Failed(u).offset = u.offset
  BY <1>3, <1>4 DEF Failed, UploadSessions
<1>5. CASE InitiateSave(r) \/ PatchSave(r) \/ FailSave(r)
  <2>1. /\ req[r].pc \in {"init_save"} \cup PcChanged
        /\ SaveSession(req[r].on, u) /\ chunk' = chunk /\ issued' = issued
    BY <1>5
       DEF InitiateSave, PatchSave, FailSave, At, SaveSnapshotAs, PcChanged, histVars
  <2>2. Carries(r, "reply") \/ Carries(r, "release")
    BY <1>1, <1>5, MoveForms DEF InitiateSave, PatchSave, FailSave
  <2> QED BY <2>1, <2>2, SaveKnows DEF Carries
<1>6. CASE MalwareSave(r)
  <2>1. /\ req[r].pc \in PcChanged
        /\ SaveSession(req[r].on, u) /\ chunk' = chunk /\ issued' = issued
    BY <1>6 DEF MalwareSave, At, SaveSnapshotAs, PcChanged, histVars
  <2>2. Moves(r, "purge_scan", req[r].on, u)
    BY <1>1, <1>6, MoveForms DEF MalwareSave
  <2> QED BY <2>1, <2>2, SaveKnows
<1>7. CASE PatchStore(r) \/ PurgeScan(r) \/ PurgeDelete(r) \/ Drop(r)
  BY <1>7, PatchStoreKnows, PurgeScanKnows, PurgeDeleteKnows, DropKnows
<1>8. CASE Release(r)
  BY <1>2, <1>8 DEF Release, Quiet, histVars
<1>9. CASE Respond(r)
  <2>1. Moves(r, "idle", None, None)
    BY <1>1, <1>9, MoveForms DEF Respond, IdleRequest
  <2>2. Quiet
    BY <1>9 DEF Respond, Quiet, redisVars
  <2> QED BY <1>1, <2>1, <2>2, QuietEnd
<1>10. CASE PatchLock(r)
  <2>1. Quiet /\ req[r].pc = "patch_lock"
    BY <1>10 DEF PatchLock, Quiet, histVars, At
  <2>2. CASE Go(r, "patch_store")
    <3>1. Carries(r, "patch_store")
      BY <1>1, <2>2, MoveForms
    <3>2. "patch_store" \in PcCurrent \ PcSending /\ "patch_lock" \in PcCurrent
      BY DEF PcCurrent, PcSending, PcS3, PcCommitted
    <3> QED BY <1>1, <2>1, <3>1, <3>2, QuietOnward
  <2>3. CASE \E code : Leave(r, code) \/ Answer(r, code)
    BY <1>2, <2>1, <2>3
  <2> QED BY <1>10, <2>2, <2>3 DEF PatchLock
<1>11. CASE AbortLock(r)
  <2>1. Quiet /\ req[r].pc \in PcCurrent
    BY <1>11 DEF AbortLock, Quiet, histVars, At, PcCurrent
  <2>2. CASE \E code, v : Conclude(r, code, v)
    <3>1. PICK v : Moves(r, "purge_scan", req[r].on, v)
      BY <1>1, <2>2, MoveForms
    <3> QED BY <2>1, <3>1, QuietChange
  <2>3. CASE \E code : Answer(r, code)
    BY <1>2, <2>1, <2>3
  <2> QED BY <1>11, <2>2, <2>3 DEF AbortLock
<1>12. CASE Publish(r)
  <2>1. Quiet /\ req[r].pc \in PcCurrent
    BY <1>12 DEF Publish, Quiet, redisVars, histVars, At, PcCurrent, PcSending, PcCommitted
  <2>2. PICK v : Moves(r, "purge_scan", req[r].on, v)
    BY <1>1, <1>12, MoveForms DEF Publish
  <2> QED BY <2>1, <2>2, QuietChange
<1>13. ASSUME Quiet, req[r].pc \in PcSending,
              \/ \E label \in PcSending : Carries(r, label)
              \/ \E label \in {"mal_save", "fail_save"} :
                   Moves(r, label, req[r].on, Failed(u))
              \/ \E code : Answer(r, code)
       PROVE  SeqInv'
  <2>1. PcSending \subseteq PcCurrent
    BY DEF PcCurrent
  <2>2. CASE \E label \in PcSending : Carries(r, label)
    BY <1>1, <1>13, <2>1, <2>2, QuietOnward
  <2>3. CASE \E label \in {"mal_save", "fail_save"} : Moves(r, label, req[r].on, Failed(u))
    BY <1>4, <1>13, <2>1, <2>3, QuietChange
  <2> QED BY <1>2, <1>13, <2>2, <2>3
<1>14. CASE \/ FinalizeLock(r) \/ Scan(r) \/ S3Initiate(r) \/ S3Part(r)
            \/ S3Complete(r) \/ S3Abort(r) \/ Register(r)
  <2>1. Quiet /\ req[r].pc \in PcSending
    BY <1>14
       DEF FinalizeLock, Scan, S3Initiate, S3Part, S3Complete, S3Abort, Register,
           Quiet, redisVars, histVars, At, PcSending, PcS3, PcCommitted
  <2>2. CASE FinalizeLock(r) \/ S3Abort(r) \/ S3Complete(r) \/ Register(r)
    <3>1. \/ \E label \in {"scan", "register", "s3_abort", "publish"} : Go(r, label)
          \/ GoWith(r, "fail_save", Failed(u)) \/ \E code : Answer(r, code)
      BY <2>2 DEF FinalizeLock, S3Abort, S3Complete, Register
    <3>2. \/ \E label \in {"scan", "register", "s3_abort", "publish"} : Carries(r, label)
          \/ Moves(r, "fail_save", req[r].on, Failed(u)) \/ \E code : Answer(r, code)
      BY <1>1, <3>1, MoveForms
    <3> QED BY <1>13, <2>1, <3>2 DEF PcSending, PcS3, PcCommitted
  <2>3. CASE Scan(r) \/ S3Initiate(r) \/ S3Part(r)
    <3>1. \/ \E label \in {"scan", "s3_initiate", "s3_part", "s3_complete"} :
               Carries(r, label)
          \/ Moves(r, "mal_save", req[r].on, Failed(u))
      BY <1>1, <2>3, CollectForms
    <3> QED BY <1>13, <2>1, <3>1 DEF PcSending, PcS3
  <2> QED BY <1>14, <2>2, <2>3
<1> QED BY <1>5, <1>6, <1>7, <1>8, <1>9, <1>10, <1>11, <1>12, <1>14
        DEF Handle, Work, PatchStep, FinalizeStep, CleanUpStep

(* Faults leave sessions and chunks alone.                                 *)
LEMMA FaultKnows ==
  ASSUME TypeInv, OneAtATime, SeqInv, NEW r \in Req, Fault(r)
  PROVE  SeqInv'
<1>1. ReqOK
  BY DEF TypeInv
<1>2. Quiet
  BY DEF Fault, Crash, RedisRaises, Cancel, CutShort, S3Raises, S3AbortFails,
         PublishRaises, redisVars, histVars, Quiet
<1>3. ASSUME \E code : Leave(r, code) \/ Answer(r, code) PROVE SeqInv'
  BY <1>1, <1>2, <1>3, MoveForms, QuietEnd DEF Carries
<1>4. CASE Crash(r)
  <2>1. Moves(r, "idle", None, None)
    BY <1>1, <1>4, MoveForms DEF Crash, IdleRequest
  <2> QED BY <1>1, <1>2, <2>1, QuietEnd
<1>5. CASE CutShort(r) \/ PublishRaises(r)
  BY <1>3, <1>5 DEF CutShort, PublishRaises
<1>6. CASE Go(r, "s3_abort") /\ req[r].pc \in PcS3
  <2>1. PcS3 \subseteq PcSending /\ PcSending \subseteq PcCurrent /\ "s3_abort" \in PcS3
    BY DEF PcCurrent, PcSending, PcS3
  <2>2. Carries(r, "s3_abort")
    BY <1>1, <1>6, MoveForms
  <2> QED BY <1>1, <1>2, <1>6, <2>1, <2>2, QuietOnward
<1>7. CASE S3Raises(r)
  BY <1>3, <1>6, <1>7 DEF S3Raises, At, PcS3
<1>8. CASE S3AbortFails(r)
  <2>1. req[r].pc \in PcCurrent /\ req[r].pc \in PcInside
    BY <1>8, PcTypes DEF S3AbortFails, At, PcCurrent, PcSending, PcS3
  <2>2. Moves(r, "fail_save", req[r].on, Failed(req[r].snap))
    BY <1>1, <1>8, MoveForms DEF S3AbortFails
  <2>3. Failed(req[r].snap).offset = req[r].snap.offset
    BY <1>1, <2>1, InsideFacts DEF Failed, UploadSessions
  <2> QED BY <1>2, <2>1, <2>2, <2>3, QuietChange
<1> QED BY <1>4, <1>5, <1>7, <1>8 DEF Fault, RedisRaises, Cancel

(* So every step keeps the invariant.                                      *)
LEMMA SeqStep ==
  ASSUME OneAtATime, "ttl" \notin Faults
  PROVE  TypeInv /\ SeqInv /\ [Next]_vars => SeqInv'
<1> SUFFICES ASSUME TypeInv, SeqInv, [Next]_vars PROVE SeqInv'
  OBVIOUS
<1>1. ASSUME NEW r \in Req, Arrive(r) \/ Handle(r) \/ Fault(r) PROVE SeqInv'
  BY <1>1, ArriveKnows, HandleKnows, FaultKnows
<1>2. CASE /\ session' = session /\ chunk' = chunk /\ issued' = issued /\ req' = req
  BY <1>2
     DEF SeqInv, ChunksHaveSession, HasAnyChunk, UnusedIds, Knows, Known, FoundAll,
         StoredIndices
<1>3. ASSUME NEW s \in Session, LockExpires(s) \/ KeyExpires(s) PROVE SeqInv'
  BY <1>2, <1>3 DEF LockExpires, KeyExpires, histVars
<1>4. CASE UNCHANGED vars
  BY <1>2, <1>4 DEF vars, redisVars, histVars
<1> QED BY <1>1, <1>3, <1>4 DEF Next

(* At first there is nothing.                                              *)
LEMMA SeqInit == Init => SeqInv
<1> SUFFICES ASSUME Init PROVE SeqInv
  OBVIOUS
<1>1. ChunksHaveSession /\ UnusedIds
  BY DEF Init, InitState, ChunksHaveSession, HasAnyChunk, UnusedIds
<1>2. \A r \in Req : req[r].pc = "idle"
  BY DEF Init, InitState, IdleRequest, NewRequest
<1> QED BY <1>1, <1>2, EndLabels DEF SeqInv, FoundAll

(* It holds in every reachable state.                                      *)
LEMMA SeqInvariant ==
  ASSUME OneAtATime, "ttl" \notin Faults
  PROVE  Spec => [](TypeInv /\ SeqInv)
<1>1. Init => TypeInv /\ SeqInv
  BY InitType, SeqInit
<1>2. TypeInv /\ SeqInv /\ [Next]_vars => (TypeInv /\ SeqInv)'
  BY TypeStep, SeqStep
<1> QED BY <1>1, <1>2, PTL DEF Spec

-----------------------------------------------------------------------------
(* Chunks never outlive their session, whichever call of abort or finalize *)
(* fails and wherever the worker dies: the abort can be repeated.          *)
THEOREM ChunksNeverStranded ==
  ASSUME OneAtATime, "ttl" \notin Faults
  PROVE  Spec => []ChunksHaveSession
<1>1. SeqInv => ChunksHaveSession
  BY DEF SeqInv
<1> QED BY <1>1, SeqInvariant, PTL

(* A session stored as FAILED is not sent, registered or announced.        *)
THEOREM FailedStaysFinal ==
  ASSUME OneAtATime, "ttl" \notin Faults
  PROVE  Spec => []FailedIsFinal
<1>1. SeqInv => FailedIsFinal
  BY DEF SeqInv, Knows, Known, FailedIsFinal, PcCurrent, PcSending
<1> QED BY <1>1, SeqInvariant, PTL

(* An offset a client was told of is not taken back, and an id that was    *)
(* used and is gone does not come back.                                    *)
THEOREM ProgressStays ==
  ASSUME OneAtATime, "ttl" \notin Faults
  PROVE  Spec => ProgressIsKept
<1> DEFINE Progress ==
      \A s \in Session :
        /\ session[s] # None /\ session'[s] # None =>
             session'[s].offset >= session[s].offset
        /\ session[s] = None /\ session'[s] # None =>
             session'[s] = NewUploadSession(session'[s].decl)
<1>1. ASSUME TypeInv, SeqInv, [Next]_vars PROVE Progress
  <2>1. session \in [Session -> {None} \cup UploadSessions] /\ ReqOK
    BY <1>1 DEF TypeInv, StoreOK
  <2>2. \A s \in Session : session[s] # None => session[s].offset \in Nat
    BY <2>1 DEF UploadSessions
  <2>3. CASE session' = session
    BY <2>2, <2>3
  <2>4. ASSUME NEW x \in Session, DeleteSession(x) PROVE Progress
    BY <2>1, <2>2, <2>4 DEF DeleteSession
  <2>5. ASSUME NEW r \in Req, Arrive(r) \/ Handle(r) \/ Fault(r) PROVE Progress
    <3> DEFINE x == req[r].on
               u == req[r].snap
    <3>1. CASE At(r, "drop") /\ DeleteSession(x)
      BY <2>1, <2>4, <3>1, PcTypes, InsideFacts DEF At
    <3>2. CASE /\ req[r].pc \in {"init_save"} \cup PcChanged
               /\ SaveSession(x, u)
      <4>1. Knows(req[r].pc, x, u)
        BY <1>1 DEF SeqInv
      <4>2. x \in Session
        BY <2>1, <3>2, PcTypes, InsideFacts DEF PcChanged
      <4>3. session'[x] = u /\ \A s \in Session \ {x} : session'[s] = session[s]
        BY <2>1, <3>2, <4>2 DEF SaveSession
      <4>4. CASE session[x] = None /\ u = NewUploadSession(u.decl)
        BY <2>2, <4>3, <4>4
      <4>5. CASE session[x] # None /\ session[x].offset <= u.offset
        <5>1. u \in UploadSessions
          BY <2>1, <3>2, PcTypes, InsideFacts DEF PcChanged
        <5>2. u.offset \in Nat
          BY <5>1 DEF UploadSessions
        <5>3. u.offset >= session[x].offset
          BY <2>2, <4>2, <4>5, <5>2
        <5> QED BY <2>2, <4>3, <4>5, <5>3
      <4> QED BY <3>2, <4>1, <4>4, <4>5 DEF Knows, Known
    <3> QED BY <2>1, <2>3, <2>5, <3>1, <3>2, SessionChanges DEF PcChanged
  <2>6. ASSUME NEW s \in Session, LockExpires(s) \/ KeyExpires(s) PROVE Progress
    BY <2>3, <2>6 DEF LockExpires, KeyExpires
  <2>7. CASE UNCHANGED vars
    BY <2>3, <2>7 DEF vars, redisVars
  <2> QED BY <1>1, <2>5, <2>6, <2>7 DEF Next
<1> HIDE DEF Progress
<1>2. TypeInv /\ SeqInv /\ [Next]_vars => [Progress]_vars
  BY <1>1
<1>3. Spec => [][Progress]_vars
  BY <1>2, SeqInvariant, PTL DEF Spec
<1> QED BY <1>3 DEF ProgressIsKept, Progress
=============================================================================
