---------------------------- MODULE IngestProofs ----------------------------
(***************************************************************************)
(* The service implements Ingest, and what it acknowledges is durable, for *)
(* any number of requests, sessions and tenants and whatever fails, dies   *)
(* or lapses: the end of finalize does not depend on the lock.             *)
(***************************************************************************)
EXTENDS UploadServiceProofs

Concluded == {"purge_scan", "purge_delete", "drop", "release", "reply"}

(* What initiate and finalize have behind them at each label, in a store   *)
(* of objects, registered files and events.                                *)
Behind(q, objects, registered, announced) ==
  /\ q.pc = "register" => objects[ObjectKey(q.snap.decl)] # None
  /\ q.pc = "publish" => registered[DedupKey(q.snap.decl)] # None
  /\ q.pc \in Concluded /\ q.op = "finalize" /\ q.status \in {200, 204} =>
       /\ registered[DedupKey(q.snap.decl)] # None
       /\ Event(q.snap.decl) \in announced
  /\ q.pc = "reply" /\ q.op = "initiate" /\ q.status \in {200, 204} =>
       registered[DedupKey(q.snap.decl)] # None

(* Which request can be at which label, as far as its outcome depends.     *)
OpOf(q) ==
  /\ q.pc \in PcPatch => q.op = "patch"
  /\ q.pc = "abort_lock" => q.op = "abort"
  /\ q.pc = "final_lock" => q.op = "finalize"
  /\ q.pc \in PcCritical => q.op # "initiate"

RequestsBehind ==
  \A r \in Req : OpOf(req[r]) /\ Behind(req[r], object, registry, events)

(* Whatever is registered is an object of the tenant it is registered for. *)
RegistryBacked ==
  \A t \in Tenant, c \in Checksum : registry[<<t, c>>] # None =>
    \E f \in File : registry[<<t, c>>] = <<t, f>> /\ object[<<t, f>>] # None

(* What a client was told of is registered, and announced if it finalized  *)
(* it.                                                                     *)
AckedBacked ==
  \A a \in acked : a.op \in {"finalize", "initiate"} =>
    /\ registry[DedupKey(a.decl)] # None
    /\ a.op = "finalize" => Event(a.decl) \in events

IngestInv == RequestsBehind /\ RegistryBacked /\ AckedBacked

(* Every step does one thing to the store at most, and only with what it   *)
(* takes behind it.                                                        *)
IngestStep ==
  \/ UNCHANGED <<object, registry, events, acked>>
  \/ \E d \in Declarations, parts \in Seq(Payload) :
       /\ object' = [object EXCEPT ![ObjectKey(d)] = parts]
       /\ UNCHANGED <<registry, events, acked>>
  \/ \E d \in Declarations :
       /\ object[ObjectKey(d)] # None
       /\ RegisterFile(d)
       /\ UNCHANGED <<object, events, acked>>
  \/ \E d \in Declarations :
       /\ registry[DedupKey(d)] # None
       /\ events' = events \cup {Event(d)}
       /\ UNCHANGED <<object, registry, acked>>
  \/ \E a \in Acks :
       /\ acked' = acked \cup {a}
       /\ a.op \in {"finalize", "initiate"} => registry[DedupKey(a.decl)] # None
       /\ a.op = "finalize" => Event(a.decl) \in events
       /\ UNCHANGED <<object, registry, events>>

(* No object, no registry entry and no event is ever taken back.           *)
StoreGrows ==
  /\ \A k \in Key : object[k] # None => object'[k] # None
  /\ \A k \in Tenant \X Checksum : registry[k] # None => registry'[k] # None
  /\ events \subseteq events'

-----------------------------------------------------------------------------
(* What an IngestStep keeps.                                               *)
LEMMA Grows ==
  ASSUME StoreOK, IngestStep
  PROVE  StoreGrows
<1>1. CASE UNCHANGED <<object, registry, events, acked>>
  BY <1>1 DEF StoreGrows
<1>2. ASSUME NEW d \in Declarations, NEW parts \in Seq(Payload),
             object' = [object EXCEPT ![ObjectKey(d)] = parts],
             UNCHANGED <<registry, events, acked>>
      PROVE  StoreGrows
  <2>1. parts # None
    BY StateAssumption
  <2> QED BY <1>2, <2>1 DEF StoreGrows, StoreOK
<1>3. ASSUME NEW d \in Declarations, RegisterFile(d),
             UNCHANGED <<object, events, acked>>
      PROVE  StoreGrows
  <2>1. ObjectKey(d) # None
    BY DeclarationTypes, StateAssumption
  <2> QED BY <1>3, <2>1 DEF StoreGrows, StoreOK, RegisterFile
<1>4. ASSUME NEW d \in Declarations, events' = events \cup {Event(d)},
             UNCHANGED <<object, registry, acked>>
      PROVE  StoreGrows
  BY <1>4 DEF StoreGrows
<1>5. ASSUME UNCHANGED <<object, registry, events>> PROVE StoreGrows
  BY <1>5 DEF StoreGrows
<1> QED BY <1>1, <1>2, <1>3, <1>4, <1>5 DEF IngestStep

(* What is registered stays backed, and a file is registered once it is.   *)
LEMMA RegistryKept ==
  ASSUME StoreOK, RegistryBacked, IngestStep
  PROVE  RegistryBacked'
<1>1. StoreGrows
  BY Grows
<1>2. ASSUME registry' = registry PROVE RegistryBacked'
  BY <1>1, <1>2 DEF RegistryBacked, StoreGrows, Key
<1>3. ASSUME NEW d \in Declarations, object[ObjectKey(d)] # None,
             RegisterFile(d), UNCHANGED <<object, events, acked>>
      PROVE  RegistryBacked'
  <2>1. /\ d.tenant \in Tenant /\ d.file \in File
        /\ ObjectKey(d) = <<d.tenant, d.file>>
        /\ DedupKey(d) = <<d.tenant, d.checksum>>
    BY DeclarationAssumption DEF DeclarationType, ObjectKey, DedupKey
  <2> SUFFICES ASSUME NEW t \in Tenant, NEW c \in Checksum, registry'[<<t, c>>] # None
               PROVE  \E f \in File : /\ registry'[<<t, c>>] = <<t, f>>
                                      /\ object'[<<t, f>>] # None
    BY DEF RegistryBacked
  <2>2. CASE <<t, c>> = DedupKey(d)
    <3>1. registry'[<<t, c>>] = ObjectKey(d)
      BY <1>3, <2>2 DEF RegisterFile, StoreOK
    <3> QED BY <1>3, <2>1, <2>2, <3>1
  <2>3. CASE <<t, c>> # DedupKey(d)
    <3>1. registry'[<<t, c>>] = registry[<<t, c>>]
      BY <1>3, <2>3 DEF RegisterFile, StoreOK
    <3> QED BY <1>3, <3>1 DEF RegistryBacked
  <2> QED BY <2>2, <2>3
<1> QED BY <1>2, <1>3 DEF IngestStep

(* What was acknowledged stays so.                                         *)
LEMMA AckedKept ==
  ASSUME StoreOK, AckedBacked, IngestStep
  PROVE  AckedBacked'
<1>1. StoreGrows
  BY Grows
<1>2. \A a \in Acks : DedupKey(a.decl) \in Tenant \X Checksum
  BY DeclarationTypes DEF Acks
<1>3. acked \subseteq Acks
  BY DEF StoreOK
<1>4. ASSUME NEW a \in acked', a.op \in {"finalize", "initiate"}
      PROVE  /\ registry'[DedupKey(a.decl)] # None
             /\ a.op = "finalize" => Event(a.decl) \in events'
  <2>1. CASE a \in acked
    BY <1>1, <1>2, <1>3, <1>4, <2>1 DEF AckedBacked, StoreGrows
  <2>2. CASE a \notin acked
    BY <1>4, <2>2 DEF IngestStep
  <2> QED BY <2>1, <2>2
<1> QED BY <1>4 DEF AckedBacked

-----------------------------------------------------------------------------
(* The record of r becomes one at this label, for the same operation, with *)
(* this entity and this status.                                            *)
To(r, label, u, code) ==
  \E q : Becomes(r, q) /\ q.pc = label /\ q.op = req[r].op
         /\ q.snap = u /\ q.status = code

(* The operators by which a handler goes on.                               *)
LEMMA OnwardTo ==
  ASSUME ReqOK, NEW r \in Req
  PROVE  LET u == req[r].snap
             n == req[r].status
         IN /\ \A label : Go(r, label) => To(r, label, u, n)
            /\ \A label, v : GoWith(r, label, v) => To(r, label, v, n)
            /\ \A code : Leave(r, code) => To(r, "release", u, code)
            /\ \A code, v : Conclude(r, code, v) => To(r, "purge_scan", v, code)
            /\ \A code : Answer(r, code) => To(r, "reply", u, code)
<1>1. req[r] \in Requests
  BY DEF ReqOK
<1>2. ASSUME NEW label, Go(r, label)
      PROVE  To(r, label, req[r].snap, req[r].status)
  <2> DEFINE q == [req[r] EXCEPT !.pc = label]
  <2>1. q.pc = label /\ q.op = req[r].op /\ q.snap = req[r].snap
        /\ q.status = req[r].status
    BY <1>1 DEF Requests
  <2> QED BY <1>2, <2>1 DEF Go, To
<1>3. ASSUME NEW label, NEW v, GoWith(r, label, v)
      PROVE  To(r, label, v, req[r].status)
  <2> DEFINE q == [req[r] EXCEPT !.pc = label, !.snap = v]
  <2>1. q.pc = label /\ q.op = req[r].op /\ q.snap = v /\ q.status = req[r].status
    BY <1>1 DEF Requests
  <2> QED BY <1>3, <2>1 DEF GoWith, To
<1>4. ASSUME NEW code, Leave(r, code)
      PROVE  To(r, "release", req[r].snap, code)
  <2> DEFINE q == [req[r] EXCEPT !.pc = "release", !.status = code]
  <2>1. q.pc = "release" /\ q.op = req[r].op /\ q.snap = req[r].snap
        /\ q.status = code
    BY <1>1 DEF Requests
  <2> QED BY <1>4, <2>1 DEF Leave, To
<1>5. ASSUME NEW code, NEW v, Conclude(r, code, v)
      PROVE  To(r, "purge_scan", v, code)
  <2> DEFINE q == [req[r] EXCEPT !.pc = "purge_scan", !.status = code, !.snap = v]
  <2>1. q.pc = "purge_scan" /\ q.op = req[r].op /\ q.snap = v /\ q.status = code
    BY <1>1 DEF Requests
  <2> QED BY <1>5, <2>1 DEF Conclude, To
<1>6. ASSUME NEW code, Answer(r, code)
      PROVE  To(r, "reply", req[r].snap, code)
  <2> DEFINE q == NewRequest("reply", req[r].op, req[r].on, req[r].snap, None, code)
  <2>1. q.pc = "reply" /\ q.op = req[r].op /\ q.snap = req[r].snap /\ q.status = code
    BY DEF NewRequest
  <2> QED BY <1>6, <2>1 DEF Answer, To
<1> QED BY <1>2, <1>3, <1>4, <1>5, <1>6

(* A loop over chunks, and the two steps that note what they found.        *)
LEMMA Noted ==
  ASSUME ReqOK, NEW r \in Req, NEW p
  PROVE  LET u == req[r].snap
             n == req[r].status
         IN /\ Becomes(r, [req[r] EXCEPT !.pc = "purge_delete", !.found = p])
                 => To(r, "purge_delete", u, n)
            /\ Becomes(r, [req[r] EXCEPT !.pc = "s3_part", !.upload = p])
                 => To(r, "s3_part", u, n)
            /\ Becomes(r, [req[r] EXCEPT !.seen = p]) => To(r, req[r].pc, u, n)
            /\ Becomes(r, [req[r] EXCEPT !.parts = p]) => To(r, req[r].pc, u, n)
<1>1. req[r] \in Requests
  BY DEF ReqOK
<1>2. ASSUME Becomes(r, [req[r] EXCEPT !.pc = "purge_delete", !.found = p])
      PROVE  To(r, "purge_delete", req[r].snap, req[r].status)
  <2> DEFINE q == [req[r] EXCEPT !.pc = "purge_delete", !.found = p]
  <2>1. q.pc = "purge_delete" /\ q.op = req[r].op /\ q.snap = req[r].snap
        /\ q.status = req[r].status
    BY <1>1 DEF Requests
  <2> QED BY <1>2, <2>1 DEF To
<1>3. ASSUME Becomes(r, [req[r] EXCEPT !.pc = "s3_part", !.upload = p])
      PROVE  To(r, "s3_part", req[r].snap, req[r].status)
  <2> DEFINE q == [req[r] EXCEPT !.pc = "s3_part", !.upload = p]
  <2>1. q.pc = "s3_part" /\ q.op = req[r].op /\ q.snap = req[r].snap
        /\ q.status = req[r].status
    BY <1>1 DEF Requests
  <2> QED BY <1>3, <2>1 DEF To
<1>4. ASSUME Becomes(r, [req[r] EXCEPT !.seen = p])
      PROVE  To(r, req[r].pc, req[r].snap, req[r].status)
  <2> DEFINE q == [req[r] EXCEPT !.seen = p]
  <2>1. q.pc = req[r].pc /\ q.op = req[r].op /\ q.snap = req[r].snap
        /\ q.status = req[r].status
    BY <1>1 DEF Requests
  <2> QED BY <1>4, <2>1 DEF To
<1>5. ASSUME Becomes(r, [req[r] EXCEPT !.parts = p])
      PROVE  To(r, req[r].pc, req[r].snap, req[r].status)
  <2> DEFINE q == [req[r] EXCEPT !.parts = p]
  <2>1. q.pc = req[r].pc /\ q.op = req[r].op /\ q.snap = req[r].snap
        /\ q.status = req[r].status
    BY <1>1 DEF Requests
  <2> QED BY <1>5, <2>1 DEF To
<1> QED BY <1>2, <1>3, <1>4, <1>5

(* What a request has behind it is still there after an IngestStep.        *)
LEMMA BehindKept ==
  ASSUME StoreGrows, NEW q \in Requests, ShapeOf(q),
         Behind(q, object, registry, events)
  PROVE  Behind(q, object', registry', events')
<1>1. ASSUME q.snap \in UploadSessions
      PROVE  /\ ObjectKey(q.snap.decl) \in Key
             /\ DedupKey(q.snap.decl) \in Tenant \X Checksum
  BY <1>1, DeclarationTypes DEF UploadSessions
<1>2. CASE q.snap \in UploadSessions
  BY <1>1, <1>2 DEF Behind, StoreGrows
<1>3. CASE q.snap \notin UploadSessions
  <2>1. {"register", "publish", "purge_scan", "purge_delete", "drop", "release"}
          \subseteq PcInside
    BY PcTypes
  <2>2. q.pc \notin PcInside
    BY <1>3 DEF ShapeOf
  <2>3. ~(q.pc = "reply" /\ q.status \in {200, 204})
    BY <1>3 DEF ShapeOf
  <2> QED BY <2>1, <2>2, <2>3 DEF Behind, Concluded
<1> QED BY <1>2, <1>3

(* A step of r keeps RequestsBehind if its new record has what it takes.   *)
LEMMA StepKeeps ==
  ASSUME TypeInv, RequestsBehind, StoreGrows, NEW r \in Req, NEW q,
         Becomes(r, q), OpOf(q), Behind(q, object', registry', events')
  PROVE  RequestsBehind'
<1>1. ReqOK
  BY DEF TypeInv
<1>2. ASSUME NEW x \in Req \ {r}
      PROVE  OpOf(req'[x]) /\ Behind(req'[x], object', registry', events')
  <2>1. req'[x] = req[x]
    BY <1>1 DEF Becomes, ReqOK
  <2>2. req[x] \in Requests /\ ShapeOf(req[x])
    BY <1>1 DEF ReqOK, Shape
  <2> QED BY <2>1, <2>2, BehindKept DEF RequestsBehind
<1>3. req'[r] = q
  BY <1>1 DEF Becomes, ReqOK
<1>4. \A x \in Req : OpOf(req'[x]) /\ Behind(req'[x], object', registry', events')
  BY <1>2, <1>3
<1> QED BY <1>4 DEF RequestsBehind, OpOf

(* The labels at which nothing has to be behind a request.                 *)
Early == {"patch_store", "patch_save", "scan", "mal_save", "s3_initiate",
          "s3_part", "s3_complete", "s3_abort", "fail_save"}

(* To one of them, or to an answer that is no success.                     *)
LEMMA ToEarly ==
  ASSUME TypeInv, RequestsBehind, StoreGrows, NEW r \in Req, NEW label, NEW u,
         NEW code, To(r, label, u, code),
         \/ label \in Early
         \/ label \in {"release", "reply"} /\ code \notin {200, 204},
         label \in PcPatch => req[r].pc \in PcPatch,
         label # "reply" => req[r].op # "initiate"
  PROVE  RequestsBehind'
<1>1. PICK q : /\ Becomes(r, q) /\ q.pc = label /\ q.op = req[r].op
               /\ q.snap = u /\ q.status = code
  BY DEF To
<1>2. Behind(q, object', registry', events')
  BY <1>1 DEF Behind, Early, Concluded
<1>3. label # "abort_lock" /\ label # "final_lock"
  BY DEF Early
<1>4. req[r].pc \in PcPatch => req[r].op = "patch"
  BY DEF RequestsBehind, OpOf
<1>5. "reply" \notin PcCritical
  BY DEF PcCritical, PcScan, PcS3, PcCommitted
<1>6. OpOf(q)
  BY <1>1, <1>3, <1>4, <1>5 DEF OpOf
<1> QED BY <1>1, <1>2, <1>6, StepKeeps

(* To a label from which it will answer, or does, with what it takes.      *)
LEMMA ToConcluded ==
  ASSUME TypeInv, RequestsBehind, StoreGrows, NEW r \in Req, NEW label, NEW u,
         NEW code, To(r, label, u, code), label \in Concluded,
         req[r].op # "initiate",
         req[r].op = "finalize" /\ code \in {200, 204} =>
           registry'[DedupKey(u.decl)] # None /\ Event(u.decl) \in events'
  PROVE  RequestsBehind'
<1>1. PICK q : /\ Becomes(r, q) /\ q.pc = label /\ q.op = req[r].op
               /\ q.snap = u /\ q.status = code
  BY DEF To
<1>2. Behind(q, object', registry', events')
  BY <1>1 DEF Behind, Concluded
<1>3. label \notin PcPatch /\ label # "abort_lock" /\ label # "final_lock"
  BY DEF PcPatch, Concluded
<1>4. OpOf(q)
  BY <1>1, <1>3 DEF OpOf
<1> QED BY <1>1, <1>2, <1>4, StepKeeps

-----------------------------------------------------------------------------
(* Every step is an IngestStep and keeps what the requests have behind     *)
(* them.  A request arrives.                                               *)
LEMMA ArriveIngest ==
  ASSUME TypeInv, RequestsBehind, NEW r \in Req, Arrive(r)
  PROVE  IngestStep /\ RequestsBehind'
<1>1. IngestStep
  BY DEF Arrive, InitiateCheck, PatchGet, QueryGet, AbortGet, FinalizeGet,
         IngestStep, redisVars, s3Vars, histVars
<1>2. StoreGrows /\ StoreOK
  BY <1>1, Grows DEF TypeInv
<1>3. ASSUME NEW d \in Declarations, InitiateCheck(r, d)
      PROVE  RequestsBehind'
  <2>1. CASE IsDuplicate(d)
    <3> DEFINE q == NewRequest("reply", "initiate", None, NewUploadSession(d), None, 200)
    <3>1. Becomes(r, q)
      BY <1>3, <2>1 DEF InitiateCheck
    <3>2. q.pc = "reply" /\ q.op = "initiate" /\ q.snap.decl = d
      BY DEF NewRequest, NewUploadSession
    <3>3. registry'[DedupKey(d)] # None
      BY <1>2, <2>1, DeclarationTypes DEF IsDuplicate, GetByChecksum, StoreGrows
    <3> HIDE DEF q
    <3>4. OpOf(q)
      BY <3>2 DEF OpOf, PcPatch, PcCritical, PcScan, PcS3, PcCommitted
    <3>5. Behind(q, object', registry', events')
      BY <3>2, <3>3 DEF Behind
    <3> QED BY <1>2, <3>1, <3>4, <3>5, StepKeeps
  <2>2. CASE ~IsDuplicate(d)
    <3> PICK s \in Session :
          Becomes(r, NewRequest("init_save", "initiate", s, NewUploadSession(d), None, 0))
      BY <1>3, <2>2 DEF InitiateCheck
    <3> DEFINE q == NewRequest("init_save", "initiate", s, NewUploadSession(d), None, 0)
    <3>1. Becomes(r, q)
      OBVIOUS
    <3>2. q.pc = "init_save"
      BY DEF NewRequest
    <3> HIDE DEF q
    <3>3. OpOf(q) /\ Behind(q, object', registry', events')
      BY <3>2 DEF OpOf, Behind, Concluded, PcPatch, PcCritical, PcScan, PcS3, PcCommitted
    <3> QED BY <1>2, <3>1, <3>3, StepKeeps
  <2> QED BY <2>1, <2>2
<1>4. ASSUME NEW op, NEW label, NEW s, NEW u, NEW a, NEW code,
             \/ label = "reply" /\ op \notin {"initiate", "finalize"}
             \/ label = "reply" /\ code \notin {200, 204}
             \/ label = "patch_lock" /\ op = "patch"
             \/ label = "abort_lock" /\ op = "abort"
             \/ label = "final_lock" /\ op = "finalize",
             Becomes(r, NewRequest(label, op, s, u, a, code))
      PROVE  RequestsBehind'
  <2> DEFINE q == NewRequest(label, op, s, u, a, code)
  <2>1. q.pc = label /\ q.op = op /\ q.status = code
    BY DEF NewRequest
  <2>2. Becomes(r, q)
    BY <1>4
  <2> HIDE DEF q
  <2>3. OpOf(q)
    BY <1>4, <2>1 DEF OpOf, PcPatch, PcCritical, PcScan, PcS3, PcCommitted
  <2>4. Behind(q, object', registry', events')
    BY <1>4, <2>1 DEF Behind, Concluded
  <2> QED BY <1>2, <2>2, <2>3, <2>4, StepKeeps
<1>5. ASSUME NEW s \in Session, NEW a \in ChunkRequests, PatchGet(r, s, a)
      PROVE  RequestsBehind'
  BY <1>4, <1>5 DEF PatchGet, Refuse, Receive
<1>6. ASSUME NEW s \in Session, QueryGet(r, s) PROVE RequestsBehind'
  BY <1>4, <1>6 DEF QueryGet
<1>7. ASSUME NEW s \in Session, AbortGet(r, s) PROVE RequestsBehind'
  BY <1>4, <1>7 DEF AbortGet, Refuse, Receive
<1>8. ASSUME NEW s \in Session, FinalizeGet(r, s) PROVE RequestsBehind'
  BY <1>4, <1>8, StatusTypes DEF FinalizeGet, Refuse, Receive
<1> QED BY <1>1, <1>3, <1>5, <1>6, <1>7, <1>8 DEF Arrive

(* What is known of a request in a handler.                                *)
LEMMA OpFacts ==
  ASSUME RequestsBehind, NEW r \in Req
  PROVE  /\ req[r].pc \in PcPatch => req[r].op = "patch"
         /\ req[r].pc = "abort_lock" => req[r].op = "abort"
         /\ req[r].pc = "final_lock" => req[r].op = "finalize"
         /\ req[r].pc \in PcCritical => req[r].op # "initiate"
BY DEF RequestsBehind, OpOf

(* Initiate's second step, and PATCH.                                      *)
LEMMA PatchIngest ==
  ASSUME TypeInv, RequestsBehind, NEW r \in Req, InitiateSave(r) \/ PatchStep(r)
  PROVE  IngestStep /\ RequestsBehind'
<1>1. IngestStep
  BY DEF InitiateSave, PatchStep, PatchLock, PatchStore, PatchSave, IngestStep,
         s3Vars, histVars
<1>2. StoreGrows /\ ReqOK
  BY <1>1, Grows DEF TypeInv
<1>3. CASE InitiateSave(r)
  <2>1. To(r, "reply", req[r].snap, 201)
    BY <1>2, <1>3, OnwardTo DEF InitiateSave
  <2> QED BY <1>1, <1>2, <2>1, ToEarly DEF PcPatch
<1>4. CASE PatchStep(r)
  <2>1. req[r].pc \in PcPatch /\ req[r].op = "patch"
    BY <1>4, OpFacts DEF PatchStep, PatchLock, PatchStore, PatchSave, At, PcPatch
  <2>2. \/ Go(r, "patch_store") \/ \E u : GoWith(r, "patch_save", u)
        \/ \E code \in Nat \ {200, 204} : Leave(r, code) \/ Answer(r, code)
        \/ Leave(r, 200)
    BY <1>4, StatusTypes DEF PatchStep, PatchLock, PatchStore, PatchSave
  <2>3. \/ \E label \in Early : \E u, code : To(r, label, u, code)
        \/ \E label \in {"release", "reply"} : \E u, code :
             To(r, label, u, code) /\ code \notin {200, 204}
        \/ \E u : To(r, "release", u, 200)
    BY <1>2, <2>2, OnwardTo DEF Early
  <2>4. CASE \E u : To(r, "release", u, 200)
    BY <1>1, <1>2, <2>1, <2>4, ToConcluded DEF Concluded
  <2>5. CASE \/ \E label \in Early : \E u, code : To(r, label, u, code)
             \/ \E label \in {"release", "reply"} : \E u, code :
                  To(r, label, u, code) /\ code \notin {200, 204}
    BY <1>1, <1>2, <2>1, <2>5, ToEarly
  <2> QED BY <1>1, <2>3, <2>4, <2>5
<1> QED BY <1>3, <1>4

(* Abort's step, and what abort and finalize share.                        *)
LEMMA CleanUpIngest ==
  ASSUME TypeInv, RequestsBehind, NEW r \in Req, AbortLock(r) \/ CleanUpStep(r)
  PROVE  IngestStep /\ RequestsBehind'
<1>1. IngestStep
  BY DEF AbortLock, CleanUpStep, PurgeScan, PurgeDelete, Drop, Release,
         IngestStep, redisVars, s3Vars, histVars
<1>2. StoreGrows /\ ReqOK /\ StoreOK
  BY <1>1, Grows DEF TypeInv
<1>3. CASE AbortLock(r)
  <2>1. req[r].op = "abort"
    BY <1>3, OpFacts DEF AbortLock, At
  <2>2. (\E u : To(r, "purge_scan", u, 204)) \/ \E u, code : To(r, "reply", u, code)
    BY <1>2, <1>3, OnwardTo DEF AbortLock
  <2> QED BY <1>1, <1>2, <2>1, <2>2, ToConcluded DEF Concluded
<1>4. CASE CleanUpStep(r)
  <2>1. req[r].pc \in Concluded /\ req[r].op # "initiate"
    BY <1>4, OpFacts DEF CleanUpStep, PurgeScan, PurgeDelete, Drop, Release, At,
                         Concluded, PcCritical
  <2>2. req[r] \in Requests /\ ShapeOf(req[r])
    BY <1>2 DEF ReqOK, Shape
  <2>3. Behind(req[r], object', registry', events')
    BY <1>2, <2>2, BehindKept DEF RequestsBehind
  <2>4. \E label \in Concluded : To(r, label, req[r].snap, req[r].status)
    BY <1>2, <1>4, OnwardTo, Noted
       DEF CleanUpStep, PurgeScan, PurgeDelete, Drop, Release, Concluded
  <2>5. req[r].op = "finalize" /\ req[r].status \in {200, 204} =>
          /\ registry'[DedupKey(req[r].snap.decl)] # None
          /\ Event(req[r].snap.decl) \in events'
    BY <2>1, <2>3 DEF Behind
  <2> QED BY <1>1, <1>2, <2>1, <2>4, <2>5, ToConcluded
<1> QED BY <1>3, <1>4

(* Finalize up to the end of the upload, and when it fails.                *)
LEMMA UploadIngest ==
  ASSUME TypeInv, RequestsBehind, NEW r \in Req,
         \/ FinalizeLock(r) \/ Scan(r) \/ MalwareSave(r) \/ S3Initiate(r)
         \/ S3Part(r) \/ S3Abort(r) \/ FailSave(r) \/ S3AbortFails(r)
  PROVE  IngestStep /\ RequestsBehind'
<1>1. IngestStep
  BY DEF FinalizeLock, Scan, MalwareSave, S3Initiate, OpenMultipart, S3Part,
         S3Abort, FailSave, S3AbortFails, IngestStep, redisVars, s3Vars, histVars
<1>2. StoreGrows /\ ReqOK
  BY <1>1, Grows DEF TypeInv
<1>3. req[r].op # "initiate"
  BY OpFacts DEF FinalizeLock, Scan, MalwareSave, S3Initiate, S3Part, S3Abort,
                 FailSave, S3AbortFails, At, PcCritical, PcScan, PcS3
<1>4. \/ \E label \in Early \ PcPatch : \E u, code : To(r, label, u, code)
      \/ \E label \in {"release", "reply"} : \E u, code :
           To(r, label, u, code) /\ code \notin {200, 204}
      \/ \E u, code : To(r, "purge_scan", u, code) /\ code \notin {200, 204}
  <2>1. {"scan", "mal_save", "s3_initiate", "s3_part", "s3_complete",
         "s3_abort", "fail_save"} \subseteq Early \ PcPatch
    BY DEF Early, PcPatch
  <2>2. CASE FinalizeLock(r) \/ FailSave(r)
    BY <1>2, <2>1, <2>2, StatusTypes, OnwardTo DEF FinalizeLock, FailSave
  <2>3. CASE Scan(r)
    <3> DEFINE p == Append(req[r].seen, chunk[req[r].on][Len(req[r].seen)])
    <3>1. \/ Go(r, "s3_initiate") \/ GoWith(r, "mal_save", Failed(req[r].snap))
          \/ req[r].pc = "scan" /\ Becomes(r, [req[r] EXCEPT !.seen = p])
      BY <2>3 DEF Scan, At
    <3> HIDE DEF p
    <3>2. CASE Go(r, "s3_initiate") \/ GoWith(r, "mal_save", Failed(req[r].snap))
      BY <1>2, <2>1, <3>2, OnwardTo
    <3>3. CASE req[r].pc = "scan" /\ Becomes(r, [req[r] EXCEPT !.seen = p])
      <4>1. To(r, "scan", req[r].snap, req[r].status)
        BY <1>2, <3>3, Noted
      <4> QED BY <2>1, <4>1
    <3> QED BY <3>1, <3>2, <3>3
  <2>4. CASE MalwareSave(r)
    BY <1>2, <2>4, StatusTypes, OnwardTo DEF MalwareSave
  <2>5. CASE S3Initiate(r)
    <3>1. PICK id : Becomes(r, [req[r] EXCEPT !.pc = "s3_part", !.upload = id])
      BY <2>5 DEF S3Initiate
    <3>2. To(r, "s3_part", req[r].snap, req[r].status)
      BY <1>2, <3>1, Noted
    <3> QED BY <2>1, <3>2
  <2>6. CASE S3Part(r)
    <3> DEFINE p == Append(req[r].parts, chunk[req[r].on][Len(req[r].parts)])
    <3>1. \/ Go(r, "s3_complete")
          \/ req[r].pc = "s3_part" /\ Becomes(r, [req[r] EXCEPT !.parts = p])
      BY <2>6 DEF S3Part, UploadPart, At
    <3> HIDE DEF p
    <3>2. CASE Go(r, "s3_complete")
      BY <1>2, <2>1, <3>2, OnwardTo
    <3>3. CASE req[r].pc = "s3_part" /\ Becomes(r, [req[r] EXCEPT !.parts = p])
      <4>1. To(r, "s3_part", req[r].snap, req[r].status)
        BY <1>2, <3>3, Noted
      <4> QED BY <2>1, <4>1
    <3> QED BY <3>1, <3>2, <3>3
  <2>7. CASE S3Abort(r) \/ S3AbortFails(r)
    BY <1>2, <2>1, <2>7, OnwardTo DEF S3Abort, S3AbortFails
  <2> QED BY <2>2, <2>3, <2>4, <2>5, <2>6, <2>7
<1>5. CASE \E u, code : To(r, "purge_scan", u, code) /\ code \notin {200, 204}
  BY <1>1, <1>2, <1>3, <1>5, ToConcluded DEF Concluded
<1>6. CASE \/ \E label \in Early \ PcPatch : \E u, code : To(r, label, u, code)
           \/ \E label \in {"release", "reply"} : \E u, code :
                To(r, label, u, code) /\ code \notin {200, 204}
  BY <1>1, <1>2, <1>3, <1>6, ToEarly DEF PcPatch
<1> QED BY <1>1, <1>4, <1>5, <1>6

(* The object is there, then the file is registered, then announced.       *)
LEMMA CommitIngest ==
  ASSUME TypeInv, RequestsBehind, NEW r \in Req,
         S3Complete(r) \/ S3Raises(r) \/ Register(r) \/ Publish(r) \/ PublishRaises(r)
  PROVE  IngestStep /\ RequestsBehind'
<1> DEFINE d == req[r].snap.decl
<1>1. ReqOK /\ StoreOK
  BY DEF TypeInv
<1>2. req[r].pc \in PcCritical /\ req[r].pc \in PcInside /\ req[r].op # "initiate"
  BY OpFacts DEF S3Complete, S3Raises, Register, Publish, PublishRaises, At,
                 PcInside, PcCritical, PcS3, PcCommitted
<1>3. /\ d \in Declarations /\ req[r].parts \in Seq(Payload)
      /\ ObjectKey(d) \in Key /\ DedupKey(d) \in Tenant \X Checksum
  BY <1>1, <1>2, InsideFacts, DeclarationTypes
<1>4. CASE S3Complete(r)
  <2>1. IngestStep
    BY <1>3, <1>4 DEF S3Complete, CompleteMultipart, IngestStep, redisVars,
                      s3Vars, histVars
  <2>2. StoreGrows
    BY <1>1, <2>1, Grows
  <2>3. CASE Go(r, "s3_abort")
    <3>1. To(r, "s3_abort", req[r].snap, req[r].status)
      BY <1>1, <2>3, OnwardTo
    <3> QED BY <1>2, <2>1, <2>2, <3>1, ToEarly DEF Early, PcPatch
  <2>4. CASE Go(r, "register") /\ object'[ObjectKey(d)] = req[r].parts
    <3>1. To(r, "register", req[r].snap, req[r].status)
      BY <1>1, <2>4, OnwardTo
    <3>2. object'[ObjectKey(d)] # None
      BY <1>3, <2>4, StateAssumption
    <3>3. PICK q : /\ Becomes(r, q) /\ q.pc = "register" /\ q.op = req[r].op
                   /\ q.snap = req[r].snap
      BY <3>1 DEF To
    <3>4. OpOf(q) /\ Behind(q, object', registry', events')
      BY <1>2, <3>2, <3>3 DEF OpOf, Behind, PcPatch, Concluded
    <3> QED BY <2>1, <2>2, <3>3, <3>4, StepKeeps
  <2> QED
    BY <1>1, <1>3, <1>4, <2>3, <2>4 DEF S3Complete, CompleteMultipart, StoreOK
<1>5. CASE S3Raises(r)
  <2>1. IngestStep
    BY <1>3, <1>5 DEF S3Raises, OpenMultipart, CompleteMultipart, IngestStep,
                      redisVars, s3Vars, histVars
  <2>2. StoreGrows
    BY <1>1, <2>1, Grows
  <2>3. \/ To(r, "release", req[r].snap, ServerError)
        \/ To(r, "s3_abort", req[r].snap, req[r].status)
    BY <1>1, <1>5, OnwardTo DEF S3Raises
  <2> QED
    BY <1>2, <2>1, <2>2, <2>3, ServerErrorType, ToEarly DEF Early, PcPatch
<1>6. CASE Register(r)
  <2>1. object[ObjectKey(d)] # None
    BY <1>6 DEF Register, At, RequestsBehind, Behind
  <2>2. IngestStep
    BY <1>3, <1>6, <2>1 DEF Register, IngestStep, s3Vars, histVars
  <2>3. StoreGrows
    BY <1>1, <2>2, Grows
  <2>4. registry'[DedupKey(d)] = ObjectKey(d)
    BY <1>1, <1>3, <1>6 DEF Register, RegisterFile, StoreOK
  <2>5. registry'[DedupKey(d)] # None
    BY <1>3, <2>4, StateAssumption
  <2>6. To(r, "publish", req[r].snap, req[r].status)
    BY <1>1, <1>6, OnwardTo DEF Register
  <2>7. PICK q : /\ Becomes(r, q) /\ q.pc = "publish" /\ q.op = req[r].op
                 /\ q.snap = req[r].snap
    BY <2>6 DEF To
  <2>8. OpOf(q) /\ Behind(q, object', registry', events')
    BY <1>2, <2>5, <2>7 DEF OpOf, Behind, PcPatch, Concluded
  <2> QED BY <2>2, <2>3, <2>7, <2>8, StepKeeps
<1>7. CASE Publish(r) \/ PublishRaises(r)
  <2>1. registry[DedupKey(d)] # None
    BY <1>7 DEF Publish, PublishRaises, At, RequestsBehind, Behind
  <2>2. IngestStep
    BY <1>3, <1>7, <2>1
       DEF Publish, PublishRaises, IngestStep, redisVars, s3Vars, histVars
  <2>3. StoreGrows
    BY <1>1, <2>2, Grows
  <2>4. CASE Publish(r)
    <3>1. Completed(req[r].snap).decl = d
      BY <1>1, <1>2, InsideFacts DEF Completed, UploadSessions
    <3>2. To(r, "purge_scan", Completed(req[r].snap), 200)
      BY <1>1, <2>4, OnwardTo DEF Publish
    <3>3. registry'[DedupKey(d)] # None /\ Event(d) \in events'
      BY <1>3, <2>1, <2>3, <2>4 DEF Publish, StoreGrows
    <3> QED BY <1>2, <2>2, <2>3, <3>1, <3>2, <3>3, ToConcluded DEF Concluded
  <2>5. CASE PublishRaises(r)
    <3>1. To(r, "release", req[r].snap, ServerError)
      BY <1>1, <2>5, OnwardTo DEF PublishRaises
    <3> QED BY <1>2, <2>2, <2>3, <3>1, ServerErrorType, ToEarly DEF PcPatch
  <2> QED BY <1>7, <2>4, <2>5
<1> QED BY <1>4, <1>5, <1>6, <1>7

(* A request ends: with a response, because a worker dies, or it is cut.   *)
LEMMA EndIngest ==
  ASSUME TypeInv, RequestsBehind, NEW r \in Req,
         Respond(r) \/ Crash(r) \/ CutShort(r)
  PROVE  IngestStep /\ RequestsBehind'
<1>1. ReqOK /\ StoreOK
  BY DEF TypeInv
<1>2. CASE Respond(r) \/ Crash(r)
  <2>1. IngestStep
    <3>1. CASE Crash(r) \/ acked' = acked
      BY <1>2, <3>1 DEF Respond, Crash, IngestStep, redisVars, s3Vars, histVars
    <3>2. CASE Respond(r) /\ acked' # acked
      <4> DEFINE a == [op |-> req[r].op, on |-> req[r].on, decl |-> req[r].snap.decl]
      <4>1. req[r] \in Requests /\ ShapeOf(req[r]) /\ req[r].pc = "reply"
            /\ req[r].status \in {200, 204}
        BY <1>1, <3>2 DEF Respond, At, ReqOK, Shape
      <4>2. a \in Acks
        BY <4>1 DEF Requests, ShapeOf, UploadSessions, Acks
      <4>3. /\ a.op \in {"finalize", "initiate"} => registry[DedupKey(a.decl)] # None
            /\ a.op = "finalize" => Event(a.decl) \in events
        BY <4>1 DEF RequestsBehind, Behind, Concluded
      <4>4. acked' = acked \cup {a} /\ UNCHANGED <<object, registry, events>>
        BY <3>2 DEF Respond, redisVars, s3Vars
      <4> QED BY <4>2, <4>3, <4>4 DEF IngestStep
    <3> QED BY <1>2, <3>1, <3>2
  <2>2. Becomes(r, IdleRequest)
    BY <1>2 DEF Respond, Crash
  <2>3. OpOf(IdleRequest) /\ Behind(IdleRequest, object', registry', events')
    BY DEF IdleRequest, NewRequest, OpOf, Behind, PcPatch, PcCritical, PcScan,
           PcS3, PcCommitted, Concluded
  <2>4. StoreGrows
    BY <1>1, <2>1, Grows
  <2> QED BY <2>1, <2>2, <2>3, <2>4, StepKeeps
<1>3. CASE CutShort(r)
  <2>1. IngestStep
    BY <1>3 DEF CutShort, IngestStep, s3Vars, histVars
  <2>2. StoreGrows
    BY <1>1, <2>1, Grows
  <2>3. CASE Answer(r, ServerError)
    <3>1. To(r, "reply", req[r].snap, ServerError)
      BY <1>1, <2>3, OnwardTo
    <3> QED BY <2>1, <2>2, <3>1, ServerErrorType, ToEarly DEF PcPatch
  <2>4. CASE req[r].pc \in PcCritical /\ Leave(r, ServerError)
    <3>1. To(r, "release", req[r].snap, ServerError)
      BY <1>1, <2>4, OnwardTo
    <3> QED BY <2>1, <2>2, <2>4, <3>1, OpFacts, ServerErrorType, ToEarly DEF PcPatch
  <2> QED BY <1>3, <2>3, <2>4 DEF CutShort
<1> QED BY <1>2, <1>3

(* Keys expire: none that is registered or announced.                      *)
LEMMA ExpiryIngest ==
  ASSUME RequestsBehind, NEW s \in Session, LockExpires(s) \/ KeyExpires(s)
  PROVE  IngestStep /\ RequestsBehind'
BY DEF LockExpires, KeyExpires, IngestStep, RequestsBehind, Behind, OpOf, s3Vars,
       histVars

(* Every step of the service is an IngestStep, ...                         *)
LEMMA EveryIngestStep ==
  ASSUME TypeInv, RequestsBehind, [Next]_vars
  PROVE  IngestStep /\ RequestsBehind'
<1>1. ASSUME NEW r \in Req, Arrive(r) PROVE IngestStep /\ RequestsBehind'
  BY <1>1, ArriveIngest
<1>2. ASSUME NEW r \in Req, Handle(r) PROVE IngestStep /\ RequestsBehind'
  BY <1>2, PatchIngest, CleanUpIngest, UploadIngest, CommitIngest, EndIngest
     DEF Handle, Work, FinalizeStep
<1>3. ASSUME NEW r \in Req, Fault(r) PROVE IngestStep /\ RequestsBehind'
  BY <1>3, UploadIngest, CommitIngest, EndIngest DEF Fault, RedisRaises, Cancel
<1>4. ASSUME NEW s \in Session, LockExpires(s) \/ KeyExpires(s)
      PROVE  IngestStep /\ RequestsBehind'
  BY <1>4, ExpiryIngest
<1>5. CASE UNCHANGED vars
  BY <1>5 DEF vars, redisVars, s3Vars, histVars, IngestStep, RequestsBehind,
              Behind, OpOf
<1> QED BY <1>1, <1>2, <1>3, <1>4, <1>5 DEF Next

(* ... and keeps the invariant.                                            *)
LEMMA IngestInvStep == TypeInv /\ IngestInv /\ [Next]_vars => IngestInv'
BY EveryIngestStep, RegistryKept, AckedKept DEF IngestInv, TypeInv

(* At first there is nothing.                                              *)
LEMMA IngestInvInit == Init => IngestInv
<1> SUFFICES ASSUME Init PROVE IngestInv
  OBVIOUS
<1>1. RequestsBehind
  BY DEF Init, InitState, IdleRequest, NewRequest, RequestsBehind, OpOf, Behind,
         PcPatch, PcCritical, PcScan, PcS3, PcCommitted, Concluded
<1>2. RegistryBacked /\ AckedBacked
  BY DEF Init, InitState, RegistryBacked, AckedBacked
<1> QED BY <1>1, <1>2 DEF IngestInv

-----------------------------------------------------------------------------
(* What a client was told of exists, in its tenant's part of the bucket,   *)
(* and was announced if it was told 200 by finalize, for any number of     *)
(* clients and whatever fails, dies or lapses.                             *)
THEOREM AcksAreDurable == Spec => []AckedIsDurable
<1>1. Init => TypeInv /\ IngestInv
  BY InitType, IngestInvInit
<1>2. TypeInv /\ IngestInv /\ [Next]_vars => (TypeInv /\ IngestInv)'
  BY TypeStep, IngestInvStep
<1>3. TypeInv /\ IngestInv => AckedIsDurable
  <2> SUFFICES ASSUME StoreOK, RegistryBacked, AckedBacked,
                      NEW a \in acked, a.op \in {"finalize", "initiate"}
               PROVE  /\ \E f \in File :
                           /\ registry[DedupKey(a.decl)] = <<a.decl.tenant, f>>
                           /\ object[<<a.decl.tenant, f>>] # None
                      /\ a.op = "finalize" => Event(a.decl) \in events
    BY DEF TypeInv, IngestInv, AckedIsDurable
  <2>1. a.decl.tenant \in Tenant /\ a.decl.checksum \in Checksum
    BY DeclarationAssumption DEF StoreOK, Acks, DeclarationType
  <2>2. /\ registry[DedupKey(a.decl)] # None
        /\ a.op = "finalize" => Event(a.decl) \in events
    BY DEF AckedBacked
  <2> QED BY <2>1, <2>2 DEF RegistryBacked, DedupKey
<1> QED BY <1>1, <1>2, <1>3, PTL DEF Spec

(* Finalize stores, registers, announces and acknowledges in this order,   *)
(* and a client is told of a duplicate only of what is registered: the     *)
(* service implements Ingest, whatever fails, dies or lapses.              *)
THEOREM IngestRefines == Spec => ImplementsIngest
<1> DEFINE stored == {k \in Key : object[k] # None}
           fin    == {a.decl : a \in {b \in acked : b.op = "finalize"}}
           ded    == {a.decl : a \in {b \in acked : b.op = "initiate"}}
<1>1. Init => TypeInv /\ IngestInv /\ Ingestion!Init
  <2> SUFFICES ASSUME Init PROVE Ingestion!Init
    BY InitType, IngestInvInit
  <2>1. stored = {} /\ fin = {} /\ ded = {}
    BY DEF Init, InitState
  <2> QED BY <2>1 DEF Init, InitState, Ingestion!Init
<1>2. ASSUME TypeInv, IngestInv, IngestStep
      PROVE  [Ingestion!Next]_(Ingestion!ingestVars)
  <2>1. StoreOK
    BY <1>2 DEF TypeInv
  <2>2. CASE UNCHANGED <<object, registry, events, acked>>
    BY <2>2 DEF Ingestion!ingestVars
  <2>3. ASSUME NEW d \in Declarations, NEW parts \in Seq(Payload),
               object' = [object EXCEPT ![ObjectKey(d)] = parts],
               UNCHANGED <<registry, events, acked>>
        PROVE  Ingestion!Next
    <3>1. parts # None /\ ObjectKey(d) \in Key
      BY StateAssumption, DeclarationTypes
    <3>2. stored' = stored \cup {ObjectKey(d)}
      BY <2>1, <2>3, <3>1 DEF StoreOK
    <3> QED
      BY <2>3, <3>1, <3>2 DEF Ingestion!Next, Ingestion!Store, Ingestion!Key, Key
  <2>4. ASSUME NEW d \in Declarations, object[ObjectKey(d)] # None,
               RegisterFile(d), UNCHANGED <<object, events, acked>>
        PROVE  Ingestion!Next
    <3>1. ObjectKey(d) \in stored
      BY <2>4, DeclarationTypes
    <3> QED
      BY <2>4, <3>1 DEF RegisterFile, Ingestion!Next, Ingestion!Register,
                        Ingestion!ObjectKey, Ingestion!DedupKey, ObjectKey, DedupKey
  <2>5. ASSUME NEW d \in Declarations, registry[DedupKey(d)] # None,
               events' = events \cup {Event(d)},
               UNCHANGED <<object, registry, acked>>
        PROVE  Ingestion!Next
    BY <2>5 DEF Ingestion!Next, Ingestion!Announce, Ingestion!Event, Event,
                Ingestion!ObjectKey, Ingestion!DedupKey, ObjectKey, DedupKey
  <2>6. ASSUME NEW a \in Acks, acked' = acked \cup {a},
               a.op \in {"finalize", "initiate"} => registry[DedupKey(a.decl)] # None,
               a.op = "finalize" => Event(a.decl) \in events,
               UNCHANGED <<object, registry, events>>
        PROVE  [Ingestion!Next]_(Ingestion!ingestVars)
    <3>1. a.decl \in Declarations
      BY DEF Acks
    <3>2. CASE a.op = "finalize"
      <4>1. fin' = fin \cup {a.decl} /\ ded' = ded
        BY <2>6, <3>2
      <4> QED
        BY <2>6, <3>1, <3>2, <4>1
           DEF Ingestion!Next, Ingestion!Finalize, Ingestion!Event, Event,
               Ingestion!ObjectKey, ObjectKey
    <3>3. CASE a.op = "initiate"
      <4>1. fin' = fin /\ ded' = ded \cup {a.decl}
        BY <2>6, <3>3
      <4> QED
        BY <2>6, <3>1, <3>3, <4>1
           DEF Ingestion!Next, Ingestion!Deduplicate, Ingestion!DedupKey, DedupKey
    <3>4. CASE a.op \notin {"finalize", "initiate"}
      <4>1. fin' = fin /\ ded' = ded
        BY <2>6, <3>4
      <4> QED BY <2>6, <4>1 DEF Ingestion!ingestVars
    <3> QED BY <3>2, <3>3, <3>4
  <2> QED BY <1>2, <2>2, <2>3, <2>4, <2>5, <2>6 DEF IngestStep
<1>3. TypeInv /\ IngestInv /\ [Next]_vars
        => (TypeInv /\ IngestInv)' /\ [Ingestion!Next]_(Ingestion!ingestVars)
  BY <1>2, TypeStep, IngestInvStep, EveryIngestStep DEF IngestInv
<1> QED
  BY <1>1, <1>3, PTL DEF Spec, ImplementsIngest, Ingestion!Spec
=============================================================================
