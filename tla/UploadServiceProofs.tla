------------------------- MODULE UploadServiceProofs -------------------------
(***************************************************************************)
(* The typing invariant of UploadService, for any number of requests,      *)
(* sessions, chunks and tenants.  The other proofs about the service build *)
(* on it.                                                                  *)
(***************************************************************************)
EXTENDS UploadProperties, TLAPS

PcPatch  == {"patch_lock", "patch_store", "patch_save"}
PcInside == PcBeforeLock \cup PcCritical   \* the labels inside a handler

(* What the handlers know at each label: from the first await on they have *)
(* a session id and the entity they read, and only a response about an     *)
(* entity is a success.                                                    *)
ShapeOf(q) ==
  /\ q.pc \in PcInside => q.on \in Session /\ q.snap \in UploadSessions
  /\ q.pc \in PcPatch => q.arg \in ChunkRequests
  /\ q.pc \in PcS3 => q.upload \in UploadId
  /\ q.pc = "reply" /\ q.status \in {200, 204} => q.snap \in UploadSessions
  /\ q.pc = "reply" /\ q.status # 200 => q.on \in Session

Shape == \A r \in Req : ShapeOf(req[r])

ReqOK == req \in [Req -> Requests] /\ Shape

StoreOK ==
  /\ session \in [Session -> {None} \cup UploadSessions]
  /\ chunk \in [Session -> [Index -> {None} \cup Payload]]
  /\ lock \in [Session -> BOOLEAN]
  /\ registry \in [Tenant \X Checksum -> {None} \cup Key]
  /\ object \in [Key -> {None} \cup Seq(Payload)]
  /\ multipart \subseteq UploadId
  /\ events \subseteq [decl : Declarations, uri : Key]
  /\ issued \subseteq Session
  /\ acked \subseteq Acks

TypeInv == StoreOK /\ ReqOK

(* A request that is inside its handler.                                   *)
Active(q) == q \in Requests /\ ShapeOf(q) /\ q.pc \in PcInside

-----------------------------------------------------------------------------
(* Values.  The entity's methods return entities.                          *)
LEMMA UpdateOffsetType ==
  ASSUME NEW u \in UploadSessions, NEW n \in Nat
  PROVE  UpdateOffset(u, n) \in UploadSessions
<1> DEFINE m == u.offset + n
<1>1. m \in Nat
  BY DEF UploadSessions
<1> HIDE DEF m
<1>2. [u EXCEPT !.offset = m,
                !.status = IF @ = "INITIATED" THEN "UPLOADING" ELSE @]
        \in UploadSessions
  BY <1>1 DEF UploadSessions, UploadStatus
<1> QED BY <1>2 DEF UpdateOffset, m

(* A new entity, and what complete(), abort() and fail() make of one, are  *)
(* entities.                                                               *)
LEMMA EntityTypes ==
  /\ \A d \in Declarations : NewUploadSession(d) \in UploadSessions
  /\ \A u \in UploadSessions : /\ Completed(u) \in UploadSessions
                               /\ Aborted(u) \in UploadSessions
                               /\ Failed(u) \in UploadSessions
BY DEF NewUploadSession, Completed, Aborted, Failed, UploadSessions, UploadStatus

(* What is derived from a declaration has its type.                        *)
LEMMA DeclarationTypes ==
  \A d \in Declarations :
    /\ ObjectKey(d) \in Key
    /\ DedupKey(d) \in Tenant \X Checksum
    /\ Event(d) \in [decl : Declarations, uri : Key]
BY DeclarationAssumption DEF ObjectKey, DedupKey, Event, Key, DeclarationType

(* No exception becomes a success.                                         *)
LEMMA StatusTypes ==
  \A e : /\ PatchStatus(e) \in Nat \ {200, 204}
         /\ AbortStatus(e) \in Nat \ {200, 204}
         /\ FinalizeStatus(e) \in Nat \ {200, 204}
         /\ GlobalStatus(e) \in Nat \ {200, 204}
<1>1. \A e : GlobalStatus(e) \in Nat \ {200, 204}
  BY DEF GlobalStatus
<1> QED BY <1>1 DEF PatchStatus, AbortStatus, FinalizeStatus

(* ... an unhandled one included.                                          *)
LEMMA ServerErrorType == ServerError \in Nat \ {200, 204}
BY StatusTypes DEF ServerError

-----------------------------------------------------------------------------
(* Labels.  All of them spelled out.                                       *)
LEMMA PcTypes ==
  /\ PcInside = {"init_save", "patch_lock", "final_lock", "abort_lock",
                 "scan", "mal_save", "s3_part", "s3_complete", "s3_abort",
                 "register", "publish", "patch_store", "patch_save",
                 "s3_initiate", "fail_save", "purge_scan", "purge_delete",
                 "drop", "release"}
  /\ Pc = {"idle", "reply"} \cup PcInside
BY DEF Pc, PcInside, PcBeforeLock, PcCritical, PcScan, PcS3, PcCommitted

(* Which groups of labels contain, or exclude, which.                      *)
LEMMA PcFacts ==
  /\ PcInside \subseteq Pc
  /\ "idle" \notin PcInside /\ "reply" \notin PcInside
  /\ PcS3 \subseteq PcInside /\ PcPatch \subseteq PcInside
  /\ PcS3 \cap PcPatch = {}
  /\ "idle" \in Pc /\ "reply" \in Pc
BY PcTypes DEF PcS3, PcPatch

-----------------------------------------------------------------------------
(* Request records.  A fresh one is well-formed if its fields are.         *)
LEMMA NewRequestType ==
  ASSUME NEW label \in Pc, NEW op \in Ops, NEW s \in {None} \cup Session,
         NEW u \in {None} \cup UploadSessions,
         NEW a \in {None} \cup ChunkRequests, NEW code \in Nat
  PROVE  /\ NewRequest(label, op, s, u, a, code) \in Requests
         /\ NewRequest(label, op, s, u, a, code).pc = label
         /\ NewRequest(label, op, s, u, a, code).on = s
         /\ NewRequest(label, op, s, u, a, code).snap = u
         /\ NewRequest(label, op, s, u, a, code).arg = a
         /\ NewRequest(label, op, s, u, a, code).status = code
BY DEF NewRequest, Requests

(* A free slot is well-formed.                                             *)
LEMMA IdleType == IdleRequest \in Requests /\ ShapeOf(IdleRequest)
<1>1. IdleRequest \in Requests /\ IdleRequest.pc = "idle"
  BY PcFacts, NewRequestType DEF IdleRequest, Ops
<1> QED BY <1>1, PcFacts DEF ShapeOf

(* One field of a record changes.                                          *)
LEMMA FieldTypes ==
  ASSUME NEW q \in Requests
  PROVE  /\ \A l \in Pc : [q EXCEPT !.pc = l] \in Requests
         /\ \A u \in UploadSessions : [q EXCEPT !.snap = u] \in Requests
         /\ \A x \in Seq(Payload) : [q EXCEPT !.seen = x] \in Requests
         /\ \A x \in Seq(Payload) : [q EXCEPT !.parts = x] \in Requests
         /\ \A x \in SUBSET Index : [q EXCEPT !.found = x] \in Requests
         /\ \A id \in UploadId : [q EXCEPT !.upload = id] \in Requests
         /\ \A n \in Nat : [q EXCEPT !.status = n] \in Requests
<1>1. ASSUME NEW l \in Pc PROVE [q EXCEPT !.pc = l] \in Requests
  BY <1>1 DEF Requests
<1>2. ASSUME NEW u \in UploadSessions PROVE [q EXCEPT !.snap = u] \in Requests
  BY <1>2 DEF Requests
<1>3. ASSUME NEW x \in Seq(Payload)
      PROVE  [q EXCEPT !.seen = x] \in Requests /\ [q EXCEPT !.parts = x] \in Requests
  BY <1>3 DEF Requests
<1>4. ASSUME NEW x \in SUBSET Index PROVE [q EXCEPT !.found = x] \in Requests
  BY <1>4 DEF Requests
<1>5. ASSUME NEW id \in UploadId PROVE [q EXCEPT !.upload = id] \in Requests
  BY <1>5 DEF Requests
<1>6. ASSUME NEW n \in Nat PROVE [q EXCEPT !.status = n] \in Requests
  BY <1>6 DEF Requests
<1> QED BY <1>1, <1>2, <1>3, <1>4, <1>5, <1>6

(* The fields of the records the handlers make.                            *)
LEMMA FieldValues ==
  ASSUME NEW q \in Requests
  PROVE  /\ \A l : LET p == [q EXCEPT !.pc = l]
                   IN  p.pc = l /\ p.on = q.on /\ p.snap = q.snap
                       /\ p.arg = q.arg /\ p.upload = q.upload
         /\ \A u : LET p == [q EXCEPT !.snap = u]
                   IN  p.pc = q.pc /\ p.on = q.on /\ p.snap = u
                       /\ p.arg = q.arg /\ p.upload = q.upload
         /\ \A n : LET p == [q EXCEPT !.status = n]
                   IN  p.pc = q.pc /\ p.on = q.on /\ p.snap = q.snap
                       /\ p.arg = q.arg /\ p.upload = q.upload
BY DEF Requests

(* The request goes on to another label of its handler.                    *)
LEMMA Relabelled ==
  ASSUME NEW q, Active(q), NEW label \in PcInside,
         label \in PcPatch => q.pc \in PcPatch,
         label \in PcS3 => q.pc \in PcS3
  PROVE  Active([q EXCEPT !.pc = label])
<1> DEFINE p == [q EXCEPT !.pc = label]
<1>1. p \in Requests
  BY PcFacts, FieldTypes DEF Active
<1>2. p.pc = label /\ p.on = q.on /\ p.snap = q.snap /\ p.arg = q.arg
      /\ p.upload = q.upload
  BY FieldValues DEF Active
<1> HIDE DEF p
<1>3. ShapeOf(p)
  BY <1>2, PcFacts DEF Active, ShapeOf
<1> QED BY <1>1, <1>2, <1>3 DEF Active, p

(* ... with another entity.                                                *)
LEMMA Resnapped ==
  ASSUME NEW q, Active(q), NEW u \in UploadSessions
  PROVE  Active([q EXCEPT !.snap = u])
<1> DEFINE p == [q EXCEPT !.snap = u]
<1>1. p \in Requests
  BY FieldTypes DEF Active
<1>2. p.pc = q.pc /\ p.on = q.on /\ p.snap = u /\ p.arg = q.arg
      /\ p.upload = q.upload
  BY FieldValues DEF Active
<1> HIDE DEF p
<1>3. ShapeOf(p)
  BY <1>2, PcFacts DEF Active, ShapeOf
<1> QED BY <1>1, <1>2, <1>3 DEF Active, p

(* ... with the status it will answer.                                     *)
LEMMA Decided ==
  ASSUME NEW q, Active(q), NEW code \in Nat
  PROVE  Active([q EXCEPT !.status = code])
<1> DEFINE p == [q EXCEPT !.status = code]
<1>1. p \in Requests
  BY FieldTypes DEF Active
<1>2. p.pc = q.pc /\ p.on = q.on /\ p.snap = q.snap /\ p.arg = q.arg
      /\ p.upload = q.upload
  BY FieldValues DEF Active
<1> HIDE DEF p
<1>3. ShapeOf(p)
  BY <1>2, PcFacts DEF Active, ShapeOf
<1> QED BY <1>1, <1>2, <1>3 DEF Active, p

(* ... with what it read, collected or opened.                             *)
LEMMA Collected ==
  ASSUME NEW q, Active(q), NEW p \in Requests,
         p.pc = q.pc, p.on = q.on, p.snap = q.snap, p.arg = q.arg,
         p.upload = q.upload
  PROVE  Active(p)
BY PcFacts DEF Active, ShapeOf

-----------------------------------------------------------------------------
(* Steps.  How one changes the records.                                    *)
LEMMA ReplaceRequest ==
  ASSUME ReqOK, NEW r \in Req, NEW q \in Requests, ShapeOf(q), Becomes(r, q)
  PROVE  ReqOK'
BY DEF ReqOK, Shape, Becomes

(* To the next label inside the handler.                                   *)
LEMMA GoType ==
  ASSUME ReqOK, NEW r \in Req, Active(req[r]), NEW label \in PcInside,
         label \in PcPatch => req[r].pc \in PcPatch,
         label \in PcS3 => req[r].pc \in PcS3,
         Go(r, label)
  PROVE  ReqOK'
<1>1. Active([req[r] EXCEPT !.pc = label])
  BY Relabelled
<1> QED BY <1>1, ReplaceRequest DEF Go, Active

(* ... with the entity changed.                                            *)
LEMMA GoWithType ==
  ASSUME ReqOK, NEW r \in Req, Active(req[r]), NEW label \in PcInside,
         label \in PcPatch => req[r].pc \in PcPatch,
         label \in PcS3 => req[r].pc \in PcS3,
         NEW u \in UploadSessions, GoWith(r, label, u)
  PROVE  ReqOK'
<1> DEFINE p == [req[r] EXCEPT !.pc = label]
<1>1. Active(p)
  BY Relabelled
<1>2. [req[r] EXCEPT !.pc = label, !.snap = u] = [p EXCEPT !.snap = u]
  OBVIOUS
<1> HIDE DEF p
<1>3. Active([p EXCEPT !.snap = u])
  BY <1>1, Resnapped
<1> QED BY <1>2, <1>3, ReplaceRequest DEF GoWith, Active

(* Into the finally clause.                                                *)
LEMMA LeaveType ==
  ASSUME ReqOK, NEW r \in Req, Active(req[r]), NEW code \in Nat, Leave(r, code)
  PROVE  ReqOK'
<1> DEFINE p == [req[r] EXCEPT !.pc = "release"]
<1>1. Active(p)
  BY PcTypes, Relabelled DEF PcPatch, PcS3
<1>2. [req[r] EXCEPT !.pc = "release", !.status = code] = [p EXCEPT !.status = code]
  OBVIOUS
<1> HIDE DEF p
<1>3. Active([p EXCEPT !.status = code])
  BY <1>1, Decided
<1> QED BY <1>2, <1>3, ReplaceRequest DEF Leave, Active

(* To the clean-up.                                                        *)
LEMMA ConcludeType ==
  ASSUME ReqOK, NEW r \in Req, Active(req[r]), NEW code \in Nat,
         NEW u \in UploadSessions, Conclude(r, code, u)
  PROVE  ReqOK'
<1> DEFINE p == [req[r] EXCEPT !.pc = "purge_scan"]
           m == [p EXCEPT !.status = code]
<1>1. Active(p)
  BY PcTypes, Relabelled DEF PcPatch, PcS3
<1>2. [req[r] EXCEPT !.pc = "purge_scan", !.status = code, !.snap = u]
        = [m EXCEPT !.snap = u]
  OBVIOUS
<1> HIDE DEF p
<1>3. Active(m)
  BY <1>1, Decided
<1> HIDE DEF m
<1>4. Active([m EXCEPT !.snap = u])
  BY <1>3, Resnapped
<1> QED BY <1>2, <1>4, ReplaceRequest DEF Conclude, Active

(* To the response.                                                        *)
LEMMA AnswerType ==
  ASSUME ReqOK, NEW r \in Req, Active(req[r]), NEW code \in Nat, Answer(r, code)
  PROVE  ReqOK'
<1> DEFINE op == req[r].op
           s  == req[r].on
           u  == req[r].snap
           q  == NewRequest("reply", op, s, u, None, code)
<1>1. op \in Ops /\ s \in Session /\ u \in UploadSessions
  BY DEF Active, Requests, ShapeOf
<1>2. Becomes(r, q)
  BY DEF Answer
<1> HIDE DEF op, s, u
<1>3. q \in Requests /\ q.pc = "reply" /\ q.on = s /\ q.snap = u
  BY <1>1, PcFacts, NewRequestType
<1> HIDE DEF q
<1>4. ShapeOf(q)
  BY <1>1, <1>3, PcFacts DEF ShapeOf
<1> QED BY <1>2, <1>3, <1>4, ReplaceRequest

-----------------------------------------------------------------------------
(* What a request inside a handler knows.                                  *)
LEMMA InsideFacts ==
  ASSUME ReqOK, NEW r \in Req, req[r].pc \in PcInside
  PROVE  /\ Active(req[r])
         /\ req[r] \in Requests
         /\ req[r].on \in Session /\ req[r].snap \in UploadSessions
         /\ req[r].snap.decl \in Declarations
         /\ req[r].status \in Nat
         /\ req[r].seen \in Seq(Payload) /\ req[r].parts \in Seq(Payload)
         /\ req[r].pc \in PcPatch => req[r].arg \in ChunkRequests
         /\ req[r].pc \in PcS3 => req[r].upload \in UploadId
<1>1. req[r] \in Requests /\ ShapeOf(req[r])
  BY DEF ReqOK, Shape
<1>2. req[r].on \in Session /\ req[r].snap \in UploadSessions
  BY <1>1 DEF ShapeOf
<1>3. req[r].status \in Nat /\ req[r].seen \in Seq(Payload) /\ req[r].parts \in Seq(Payload)
  BY <1>1 DEF Requests
<1> QED BY <1>1, <1>2, <1>3 DEF Active, ShapeOf, UploadSessions

(* An empty store and only free slots are well-formed.                     *)
LEMMA InitType == Init => TypeInv
<1> SUFFICES ASSUME Init PROVE StoreOK /\ ReqOK
  BY DEF TypeInv
<1>1. ReqOK
  BY IdleType DEF Init, InitState, Shape, ReqOK
<1>2. StoreOK
  BY DEF Init, InitState, StoreOK
<1> QED BY <1>1, <1>2

(* A refused request goes straight to the response.                        *)
LEMMA RefuseType ==
  ASSUME ReqOK, NEW r \in Req, NEW op \in Ops, NEW s \in Session,
         NEW code \in Nat \ {200, 204}, Refuse(r, op, s, code)
  PROVE  ReqOK'
<1> DEFINE q == NewRequest("reply", op, s, None, None, code)
<1>1. Becomes(r, q)
  BY DEF Refuse
<1>2. q \in Requests /\ q.pc = "reply" /\ q.on = s /\ q.status = code
  BY PcFacts, NewRequestType
<1> HIDE DEF q
<1>3. ShapeOf(q)
  BY <1>2, PcFacts DEF ShapeOf
<1> QED BY <1>1, <1>2, <1>3, ReplaceRequest

(* A request that goes on to take the lock has read the session.           *)
LEMMA ReceiveType ==
  ASSUME StoreOK, ReqOK, NEW r \in Req, NEW op \in Ops, NEW s \in Session,
         session[s] # None, NEW a \in {None} \cup ChunkRequests,
         NEW label \in PcBeforeLock, label = "patch_lock" => a \in ChunkRequests,
         Receive(r, op, s, a, label)
  PROVE  ReqOK'
<1> DEFINE u == session[s]
           q == NewRequest(label, op, s, u, a, 0)
<1>1. u \in UploadSessions
  BY DEF StoreOK
<1>2. Becomes(r, q)
  BY DEF Receive
<1>3. label \in Pc /\ label \notin PcS3 /\ label # "reply"
      /\ (label \in PcPatch => label = "patch_lock")
  BY PcTypes DEF PcBeforeLock, PcS3, PcPatch
<1> HIDE DEF u
<1>4. q \in Requests /\ q.pc = label /\ q.on = s /\ q.snap = u /\ q.arg = a
  BY <1>1, <1>3, NewRequestType
<1> HIDE DEF q
<1>5. ShapeOf(q)
  BY <1>1, <1>3, <1>4, PcFacts DEF ShapeOf
<1> QED BY <1>2, <1>4, <1>5, ReplaceRequest

(* Both together: every handler but that of POST /v1/uploads starts so.    *)
LEMMA StartType ==
  ASSUME StoreOK, ReqOK, NEW r \in Req, NEW op \in Ops, NEW s \in Session,
         NEW a \in {None} \cup ChunkRequests,
         NEW label \in PcBeforeLock, label = "patch_lock" => a \in ChunkRequests,
         \/ \E code \in Nat \ {200, 204} : Refuse(r, op, s, code)
         \/ session[s] # None /\ Receive(r, op, s, a, label)
  PROVE  ReqOK'
BY RefuseType, ReceiveType

(* Initiate checks for a duplicate.                                        *)
LEMMA InitiateCheckType ==
  ASSUME TypeInv, NEW r \in Req, NEW d \in Declarations, InitiateCheck(r, d)
  PROVE  TypeInv'
<1>1. StoreOK /\ ReqOK
  BY DEF TypeInv
<1> DEFINE u == NewUploadSession(d)
<1>2. u \in UploadSessions /\ "initiate" \in Ops
  BY EntityTypes DEF Ops
<1>3. ASSUME NEW q \in Requests, Becomes(r, q), q.snap = u,
             \/ q.pc = "reply" /\ q.status = 200
             \/ q.pc = "init_save" /\ q.on \in Session
      PROVE  ReqOK'
  <2>1. "init_save" \notin PcS3 \cup PcPatch /\ "reply" \notin PcS3 \cup PcPatch
    BY DEF PcS3, PcPatch
  <2>2. ShapeOf(q)
    BY <1>2, <1>3, <2>1, PcFacts DEF ShapeOf
  <2> QED BY <1>1, <1>3, <2>2, ReplaceRequest
<1>4. ASSUME IsDuplicate(d) PROVE ReqOK' /\ issued' \subseteq Session
  <2> DEFINE q == NewRequest("reply", "initiate", None, u, None, 200)
  <2>1. Becomes(r, q) /\ issued' = issued
    BY <1>4 DEF InitiateCheck
  <2> HIDE DEF u
  <2>2. "reply" \in Pc
    BY PcTypes
  <2>3. q \in Requests /\ q.pc = "reply" /\ q.snap = u /\ q.status = 200
    BY <1>2, <2>2, NewRequestType
  <2> HIDE DEF q
  <2> QED BY <1>1, <1>3, <2>1, <2>3 DEF StoreOK
<1>5. ASSUME ~IsDuplicate(d) PROVE ReqOK' /\ issued' \subseteq Session
  <2>1. PICK s \in Session \ issued :
          /\ Becomes(r, NewRequest("init_save", "initiate", s, u, None, 0))
          /\ issued' = issued \cup {s}
    BY <1>5 DEF InitiateCheck
  <2> DEFINE q == NewRequest("init_save", "initiate", s, u, None, 0)
  <2> HIDE DEF u
  <2>2. "init_save" \in Pc
    BY PcTypes
  <2>3. q \in Requests /\ q.pc = "init_save" /\ q.on = s /\ q.snap = u
    BY <1>2, <2>2, NewRequestType
  <2>4. Becomes(r, q)
    BY <2>1
  <2> HIDE DEF q
  <2> QED BY <1>1, <1>3, <2>1, <2>3, <2>4 DEF StoreOK
<1>6. ReqOK' /\ issued' \subseteq Session
  BY <1>4, <1>5
<1>7. StoreOK'
  BY <1>1, <1>6 DEF InitiateCheck, StoreOK, redisVars, s3Vars
<1> QED BY <1>6, <1>7 DEF TypeInv

(* The other requests arrive: what a handler reads before its first await. *)
LEMMA GetType ==
  ASSUME TypeInv, NEW r \in Req, NEW s \in Session,
         \/ \E a \in ChunkRequests : PatchGet(r, s, a)
         \/ QueryGet(r, s) \/ AbortGet(r, s) \/ FinalizeGet(r, s)
  PROVE  TypeInv'
<1>1. StoreOK /\ ReqOK
  BY DEF TypeInv
<1>2. "patch" \in Ops /\ "head" \in Ops /\ "abort" \in Ops /\ "finalize" \in Ops
  BY DEF Ops
<1>3. /\ "patch_lock" \in PcBeforeLock /\ "abort_lock" \in PcBeforeLock
      /\ "final_lock" \in PcBeforeLock
  BY DEF PcBeforeLock
<1>4. ASSUME NEW a \in ChunkRequests, PatchGet(r, s, a) PROVE ReqOK'
  <2>1. \/ \E code \in Nat \ {200, 204} : Refuse(r, "patch", s, code)
        \/ session[s] # None /\ Receive(r, "patch", s, a, "patch_lock")
    BY <1>4, StatusTypes DEF PatchGet
  <2> QED BY <1>1, <1>2, <1>3, <2>1, StartType
<1>5. ASSUME AbortGet(r, s) PROVE ReqOK'
  <2>1. \/ \E code \in Nat \ {200, 204} : Refuse(r, "abort", s, code)
        \/ session[s] # None /\ Receive(r, "abort", s, None, "abort_lock")
    BY <1>5, StatusTypes DEF AbortGet
  <2> QED BY <1>1, <1>2, <1>3, <2>1, StartType
<1>6. ASSUME FinalizeGet(r, s) PROVE ReqOK'
  <2>1. \/ \E code \in Nat \ {200, 204} : Refuse(r, "finalize", s, code)
        \/ session[s] # None /\ Receive(r, "finalize", s, None, "final_lock")
    BY <1>6, StatusTypes DEF FinalizeGet
  <2> QED BY <1>1, <1>2, <1>3, <2>1, StartType
<1>7. ASSUME QueryGet(r, s) PROVE ReqOK'
  <2> DEFINE u    == session[s]
             code == IF u = None THEN 404 ELSE 200
             q    == NewRequest("reply", "head", s, u, None, code)
  <2>1. u \in {None} \cup UploadSessions
    BY <1>1 DEF StoreOK
  <2>2. code \in Nat /\ (code \in {200, 204} => u # None)
    OBVIOUS
  <2>3. Becomes(r, q)
    BY <1>7 DEF QueryGet
  <2> HIDE DEF u, code
  <2>4. q \in Requests /\ q.pc = "reply" /\ q.on = s /\ q.snap = u /\ q.status = code
    BY <1>2, <2>1, <2>2, PcFacts DEF NewRequest, Requests
  <2> HIDE DEF q
  <2>5. ShapeOf(q)
    BY <2>1, <2>2, <2>4, PcFacts DEF ShapeOf
  <2> QED BY <1>1, <2>3, <2>4, <2>5, ReplaceRequest
<1>8. StoreOK'
  BY <1>1 DEF PatchGet, QueryGet, AbortGet, FinalizeGet, StoreOK, redisVars,
              s3Vars, histVars
<1> QED BY <1>4, <1>5, <1>6, <1>7, <1>8 DEF TypeInv

(* The steps of PATCH.                                                     *)
LEMMA PatchType ==
  ASSUME TypeInv, NEW r \in Req, PatchStep(r)
  PROVE  TypeInv'
<1>1. StoreOK /\ ReqOK
  BY DEF TypeInv
<1>2. req[r].pc \in PcPatch
  BY DEF PatchStep, PatchLock, PatchStore, PatchSave, At, PcPatch
<1>3. /\ Active(req[r]) /\ req[r].on \in Session
      /\ req[r].snap \in UploadSessions /\ req[r].arg \in ChunkRequests
  BY <1>1, <1>2, PcFacts, InsideFacts
<1>4. {"patch_store", "patch_save"} \subseteq PcInside
      /\ {"patch_store", "patch_save"} \cap PcS3 = {}
  BY PcTypes DEF PcS3
<1>5. CASE PatchLock(r)
  <2>1. ReqOK'
    BY <1>1, <1>2, <1>3, <1>4, <1>5, StatusTypes, LeaveType, AnswerType, GoType
       DEF PatchLock
  <2>2. StoreOK'
    BY <1>1, <1>5 DEF PatchLock, StoreOK, AcquireLock, s3Vars, histVars
  <2> QED BY <2>1, <2>2 DEF TypeInv
<1>6. CASE PatchStore(r)
  <2> DEFINE n == Size[req[r].arg.data]
             u == UpdateOffset(req[r].snap, n)
  <2>1. req[r].arg.data \in Payload /\ n \in Nat
    BY <1>3, StateAssumption DEF ChunkRequestType
  <2>2. u \in UploadSessions
    BY <1>3, <2>1, UpdateOffsetType
  <2>3. GoWith(r, "patch_save", u) \/ Leave(r, PatchStatus("ValueError"))
    BY <1>6 DEF PatchStore
  <2> HIDE DEF n, u
  <2>4. ReqOK'
    BY <1>1, <1>2, <1>3, <1>4, <2>2, <2>3, StatusTypes, GoWithType, LeaveType
  <2>5. StoreOK'
    BY <1>1, <1>6, <2>1 DEF PatchStore, SaveChunk, StoreOK, s3Vars, histVars
  <2> QED BY <2>4, <2>5 DEF TypeInv
<1>7. CASE PatchSave(r)
  <2>1. ReqOK'
    BY <1>1, <1>3, <1>7, LeaveType DEF PatchSave
  <2>2. StoreOK'
    BY <1>1, <1>3, <1>7 DEF PatchSave, SaveSession, StoreOK, s3Vars, histVars
  <2> QED BY <2>1, <2>2 DEF TypeInv
<1> QED BY <1>5, <1>6, <1>7 DEF PatchStep

(* The steps of initiate and abort, what abort and finalize share, and the *)
(* response.                                                               *)
LEMMA CleanUpType ==
  ASSUME TypeInv, NEW r \in Req,
         InitiateSave(r) \/ AbortLock(r) \/ CleanUpStep(r)
  PROVE  TypeInv'
<1>1. StoreOK /\ ReqOK
  BY DEF TypeInv
<1>2. req[r].pc \in PcInside
  BY PcTypes DEF InitiateSave, AbortLock, CleanUpStep, PurgeScan, PurgeDelete,
                 Drop, Release, At
<1>3. /\ Active(req[r]) /\ req[r] \in Requests /\ req[r].on \in Session
      /\ req[r].snap \in UploadSessions /\ req[r].status \in Nat
  BY <1>1, <1>2, InsideFacts
<1>4. CASE InitiateSave(r)
  <2>1. ReqOK'
    BY <1>1, <1>3, <1>4, AnswerType DEF InitiateSave
  <2>2. StoreOK'
    BY <1>1, <1>3, <1>4 DEF InitiateSave, SaveSession, StoreOK, s3Vars, histVars
  <2> QED BY <2>1, <2>2 DEF TypeInv
<1>5. CASE AbortLock(r)
  <2>1. Aborted(req[r].snap) \in UploadSessions
    BY <1>3, EntityTypes
  <2>2. ReqOK'
    BY <1>1, <1>3, <1>5, <2>1, StatusTypes, ConcludeType, AnswerType DEF AbortLock
  <2>3. StoreOK'
    BY <1>1, <1>5 DEF AbortLock, AcquireLock, StoreOK, s3Vars, histVars
  <2> QED BY <2>2, <2>3 DEF TypeInv
<1>6. CASE PurgeScan(r)
  <2> DEFINE found == StoredIndices(req[r].on)
             p     == [req[r] EXCEPT !.pc = "purge_delete"]
             q     == [p EXCEPT !.found = found]
  <2>1. found \in SUBSET Index
    BY DEF StoredIndices
  <2>2. Active(p)
    BY <1>3, PcTypes, Relabelled DEF PcPatch, PcS3
  <2>3. Becomes(r, q)
    BY <1>6 DEF PurgeScan
  <2> HIDE DEF found, p
  <2>4. q \in Requests
    BY <2>1, <2>2, FieldTypes DEF Active
  <2>5. q.pc = p.pc /\ q.on = p.on /\ q.snap = p.snap /\ q.arg = p.arg
        /\ q.upload = p.upload
    BY <2>2 DEF Active, Requests
  <2> HIDE DEF q
  <2>6. Active(q)
    BY <2>2, <2>4, <2>5, Collected
  <2>7. ReqOK'
    BY <1>1, <2>3, <2>6, ReplaceRequest DEF Active
  <2>8. StoreOK'
    BY <1>1, <1>6 DEF PurgeScan, StoreOK, redisVars, s3Vars, histVars
  <2> QED BY <2>7, <2>8 DEF TypeInv
<1>7. CASE PurgeDelete(r)
  <2>1. ReqOK'
    BY <1>1, <1>3, <1>7, PcTypes, GoType DEF PurgeDelete, PcPatch, PcS3
  <2>2. StoreOK'
    BY <1>1, <1>7 DEF PurgeDelete, DeleteChunks, StoreOK, s3Vars, histVars
  <2> QED BY <2>1, <2>2 DEF TypeInv
<1>8. CASE Drop(r)
  <2>1. ReqOK'
    BY <1>1, <1>3, <1>8, PcTypes, GoType DEF Drop, PcPatch, PcS3
  <2>2. StoreOK'
    BY <1>1, <1>8 DEF Drop, DeleteSession, StoreOK, s3Vars, histVars
  <2> QED BY <2>1, <2>2 DEF TypeInv
<1>9. CASE Release(r)
  <2>1. ReqOK'
    BY <1>1, <1>3, <1>9, AnswerType DEF Release
  <2>2. StoreOK'
    BY <1>1, <1>9 DEF Release, ReleaseLock, StoreOK, s3Vars, histVars
  <2> QED BY <2>1, <2>2 DEF TypeInv
<1> QED BY <1>4, <1>5, <1>6, <1>7, <1>8, <1>9 DEF CleanUpStep

(* The response is sent.                                                   *)
LEMMA RespondType ==
  ASSUME TypeInv, NEW r \in Req, Respond(r)
  PROVE  TypeInv'
<1>1. StoreOK /\ ReqOK
  BY DEF TypeInv
<1>2. ReqOK'
  BY <1>1, IdleType, ReplaceRequest DEF Respond
<1>3. req[r] \in Requests /\ ShapeOf(req[r]) /\ req[r].pc = "reply"
  BY <1>1 DEF ReqOK, Shape, Respond, At
<1>4. /\ req[r].op \in Ops /\ req[r].on \in {None} \cup Session
      /\ req[r].status \in {200, 204} => req[r].snap.decl \in Declarations
  BY <1>3 DEF Requests, ShapeOf, UploadSessions
<1>5. acked' \subseteq Acks
  BY <1>1, <1>4 DEF Respond, StoreOK, Acks
<1>6. StoreOK'
  BY <1>1, <1>5 DEF Respond, StoreOK, redisVars, s3Vars
<1> QED BY <1>2, <1>6 DEF TypeInv

(* A chunk read from Redis is appended to what the request has read.       *)
LEMMA AppendType ==
  ASSUME ReqOK, NEW r \in Req, Active(req[r]), NEW p \in Payload,
         \/ Becomes(r, [req[r] EXCEPT !.seen = Append(@, p)])
         \/ Becomes(r, [req[r] EXCEPT !.parts = Append(@, p)])
  PROVE  ReqOK'
<1> DEFINE seen  == Append(req[r].seen, p)
           parts == Append(req[r].parts, p)
           q1    == [req[r] EXCEPT !.seen = seen]
           q2    == [req[r] EXCEPT !.parts = parts]
<1>1. req[r] \in Requests
  BY DEF Active
<1>2. seen \in Seq(Payload) /\ parts \in Seq(Payload)
  BY <1>1 DEF Requests
<1>3. Becomes(r, q1) \/ Becomes(r, q2)
  OBVIOUS
<1> HIDE DEF seen, parts
<1>4. q1 \in Requests /\ q2 \in Requests
  BY <1>1, <1>2, FieldTypes
<1>5. q1.pc = req[r].pc /\ q1.on = req[r].on /\ q1.snap = req[r].snap
      /\ q1.arg = req[r].arg /\ q1.upload = req[r].upload
  BY <1>1 DEF Requests
<1>6. q2.pc = req[r].pc /\ q2.on = req[r].on /\ q2.snap = req[r].snap
      /\ q2.arg = req[r].arg /\ q2.upload = req[r].upload
  BY <1>1 DEF Requests
<1> HIDE DEF q1, q2
<1>7. Active(q1) /\ Active(q2)
  BY <1>4, <1>5, <1>6, Collected
<1> QED BY <1>3, <1>7, ReplaceRequest DEF Active

(* The steps of finalize up to the upload to S3.                           *)
LEMMA ScanType ==
  ASSUME TypeInv, NEW r \in Req, FinalizeLock(r) \/ Scan(r) \/ MalwareSave(r)
  PROVE  TypeInv'
<1>1. StoreOK /\ ReqOK
  BY DEF TypeInv
<1>2. req[r].pc \in PcInside /\ {"scan", "mal_save", "s3_initiate"} \subseteq PcInside
      /\ {"scan", "mal_save", "s3_initiate"} \cap (PcPatch \cup PcS3) = {}
  BY PcTypes DEF FinalizeLock, Scan, MalwareSave, At, PcPatch, PcS3
<1>3. /\ Active(req[r]) /\ req[r].on \in Session
      /\ req[r].snap \in UploadSessions /\ Failed(req[r].snap) \in UploadSessions
  BY <1>1, <1>2, InsideFacts, EntityTypes
<1>4. CASE FinalizeLock(r)
  <2>1. ReqOK'
    BY <1>1, <1>2, <1>3, <1>4, StatusTypes, GoType, AnswerType DEF FinalizeLock
  <2>2. StoreOK'
    BY <1>1, <1>4 DEF FinalizeLock, AcquireLock, StoreOK, s3Vars, histVars
  <2> QED BY <2>1, <2>2 DEF TypeInv
<1>5. CASE Scan(r)
  <2> DEFINE i == Len(req[r].seen)
             p == chunk[req[r].on][i]
  <2>1. HasChunk(req[r].on, i) => p \in Payload
    BY <1>1, <1>3 DEF HasChunk, StoreOK
  <2>2. \/ Go(r, "s3_initiate")
        \/ GoWith(r, "mal_save", Failed(req[r].snap))
        \/ p \in Payload /\ Becomes(r, [req[r] EXCEPT !.seen = Append(@, p)])
    BY <1>5, <2>1 DEF Scan
  <2> HIDE DEF p
  <2>3. ReqOK'
    BY <1>1, <1>2, <1>3, <2>2, GoType, GoWithType, AppendType
  <2>4. StoreOK'
    BY <1>1, <1>5 DEF Scan, StoreOK, redisVars, s3Vars, histVars
  <2> QED BY <2>3, <2>4 DEF TypeInv
<1>6. CASE MalwareSave(r)
  <2>1. ReqOK'
    BY <1>1, <1>3, <1>6, StatusTypes, ConcludeType DEF MalwareSave
  <2>2. StoreOK'
    BY <1>1, <1>3, <1>6
       DEF MalwareSave, SaveSnapshotAs, SaveSession, StoreOK, s3Vars, histVars
  <2> QED BY <2>1, <2>2 DEF TypeInv
<1> QED BY <1>4, <1>5, <1>6

(* The upload to S3.                                                       *)
LEMMA S3Type ==
  ASSUME TypeInv, NEW r \in Req,
         \/ S3Initiate(r) \/ S3Part(r) \/ S3Complete(r) \/ S3Abort(r)
         \/ S3Raises(r) \/ S3AbortFails(r)
  PROVE  TypeInv'
<1>1. StoreOK /\ ReqOK
  BY DEF TypeInv
<1>2. /\ req[r].pc \in PcInside
      /\ {"s3_part", "s3_complete", "s3_abort", "register", "fail_save"} \subseteq PcInside
      /\ {"s3_part", "s3_complete", "s3_abort", "register", "fail_save"} \cap PcPatch = {}
      /\ {"register", "fail_save"} \cap PcS3 = {}
  BY PcTypes DEF S3Initiate, S3Part, S3Complete, S3Abort, S3Raises,
                 S3AbortFails, At, PcPatch, PcS3
<1>3. /\ Active(req[r]) /\ req[r].on \in Session
      /\ req[r].snap \in UploadSessions /\ Failed(req[r].snap) \in UploadSessions
      /\ ObjectKey(req[r].snap.decl) \in Key /\ req[r].parts \in Seq(Payload)
  BY <1>1, <1>2, InsideFacts, EntityTypes, DeclarationTypes
<1>4. CASE S3Initiate(r)
  <2> PICK id \in UploadId \ multipart :
        /\ OpenMultipart(id)
        /\ Becomes(r, [req[r] EXCEPT !.pc = "s3_part", !.upload = id])
    BY <1>4 DEF S3Initiate
  <2> DEFINE p == [req[r] EXCEPT !.pc = "s3_part"]
             q == [p EXCEPT !.upload = id]
  <2>1. p \in Requests /\ p.pc = "s3_part" /\ p.on = req[r].on
        /\ p.snap = req[r].snap
    BY <1>2, <1>3, PcFacts, FieldTypes, FieldValues DEF Active
  <2>2. Becomes(r, q)
    OBVIOUS
  <2> HIDE DEF p
  <2>3. q \in Requests
    BY <2>1, FieldTypes
  <2>4. q.pc = "s3_part" /\ q.on = req[r].on /\ q.snap = req[r].snap /\ q.upload = id
    BY <2>1 DEF Requests
  <2> HIDE DEF q
  <2>5. ShapeOf(q)
    BY <1>2, <1>3, <2>4 DEF ShapeOf
  <2>6. ReqOK'
    BY <1>1, <2>2, <2>3, <2>5, ReplaceRequest
  <2>7. StoreOK'
    BY <1>1, <1>4 DEF S3Initiate, OpenMultipart, StoreOK, redisVars, histVars
  <2> QED BY <2>6, <2>7 DEF TypeInv
<1>5. CASE S3Part(r)
  <2> DEFINE i == Len(req[r].parts)
             p == chunk[req[r].on][i]
  <2>1. HasChunk(req[r].on, i) => p \in Payload
    BY <1>1, <1>3 DEF HasChunk, StoreOK
  <2>2. \/ Go(r, "s3_complete") /\ req[r].pc \in PcS3
        \/ p \in Payload /\ Becomes(r, [req[r] EXCEPT !.parts = Append(@, p)])
    BY <1>5, <2>1 DEF S3Part, UploadPart, At, PcS3
  <2> HIDE DEF p
  <2>3. ReqOK'
    BY <1>1, <1>2, <1>3, <2>2, GoType, AppendType
  <2>4. StoreOK'
    BY <1>1, <1>5 DEF S3Part, StoreOK, redisVars, s3Vars, histVars
  <2> QED BY <2>3, <2>4 DEF TypeInv
<1>6. CASE S3Complete(r)
  <2>1. req[r].pc \in PcS3
    BY <1>6 DEF S3Complete, At, PcS3
  <2>2. Go(r, "register") \/ Go(r, "s3_abort")
    BY <1>6 DEF S3Complete
  <2>3. ReqOK'
    BY <1>1, <1>2, <1>3, <2>1, <2>2, GoType
  <2>4. StoreOK'
    BY <1>1, <1>3, <1>6
       DEF S3Complete, CompleteMultipart, StoreOK, s3Vars, redisVars, histVars
  <2> QED BY <2>3, <2>4 DEF TypeInv
<1>7. CASE S3Abort(r) \/ S3AbortFails(r)
  <2>1. GoWith(r, "fail_save", Failed(req[r].snap))
    BY <1>7 DEF S3Abort, S3AbortFails
  <2>2. ReqOK'
    BY <1>1, <1>2, <1>3, <2>1, GoWithType
  <2>3. StoreOK'
    BY <1>1, <1>7 DEF S3Abort, S3AbortFails, AbortMultipart, StoreOK, redisVars,
                      s3Vars, histVars
  <2> QED BY <2>2, <2>3 DEF TypeInv
<1>8. CASE S3Raises(r)
  <2>1. Leave(r, ServerError) \/ (Go(r, "s3_abort") /\ req[r].pc \in PcS3)
    BY <1>8 DEF S3Raises, At, PcS3
  <2>2. ReqOK'
    BY <1>1, <1>2, <1>3, <2>1, ServerErrorType, LeaveType, GoType
  <2>3. StoreOK'
    BY <1>1, <1>3, <1>8
       DEF S3Raises, OpenMultipart, CompleteMultipart, StoreOK, s3Vars,
           redisVars, histVars
  <2> QED BY <2>2, <2>3 DEF TypeInv
<1> QED BY <1>4, <1>5, <1>6, <1>7, <1>8

(* The steps of finalize after it.                                         *)
LEMMA CommitType ==
  ASSUME TypeInv, NEW r \in Req,
         FailSave(r) \/ Register(r) \/ Publish(r) \/ PublishRaises(r)
  PROVE  TypeInv'
<1>1. StoreOK /\ ReqOK
  BY DEF TypeInv
<1>2. req[r].pc \in PcInside /\ "publish" \in PcInside /\ "publish" \notin PcPatch \cup PcS3
  BY PcTypes DEF FailSave, Register, Publish, PublishRaises, At, PcPatch, PcS3
<1>3. /\ Active(req[r]) /\ req[r].on \in Session
      /\ req[r].snap \in UploadSessions /\ req[r].snap.decl \in Declarations
      /\ Completed(req[r].snap) \in UploadSessions
  BY <1>1, <1>2, InsideFacts, EntityTypes
<1>4. CASE FailSave(r)
  <2>1. ReqOK'
    BY <1>1, <1>3, <1>4, StatusTypes, LeaveType DEF FailSave
  <2>2. StoreOK'
    BY <1>1, <1>3, <1>4
       DEF FailSave, SaveSnapshotAs, SaveSession, StoreOK, s3Vars, histVars
  <2> QED BY <2>1, <2>2 DEF TypeInv
<1>5. CASE Register(r)
  <2>1. ReqOK'
    BY <1>1, <1>2, <1>3, <1>5, GoType DEF Register
  <2>2. StoreOK'
    BY <1>1, <1>3, <1>5, DeclarationTypes
       DEF Register, RegisterFile, StoreOK, s3Vars, histVars
  <2> QED BY <2>1, <2>2 DEF TypeInv
<1>6. CASE Publish(r) \/ PublishRaises(r)
  <2>1. Conclude(r, 200, Completed(req[r].snap)) \/ Leave(r, ServerError)
    BY <1>6 DEF Publish, PublishRaises
  <2>2. ReqOK'
    BY <1>1, <1>3, <2>1, ServerErrorType, ConcludeType, LeaveType
  <2>3. StoreOK'
    BY <1>1, <1>3, <1>6, DeclarationTypes
       DEF Publish, PublishRaises, StoreOK, redisVars, s3Vars, histVars
  <2> QED BY <2>2, <2>3 DEF TypeInv
<1> QED BY <1>4, <1>5, <1>6

(* A worker dies, stops, or gets no answer from Redis.                     *)
LEMMA CutType ==
  ASSUME TypeInv, NEW r \in Req, Crash(r) \/ CutShort(r)
  PROVE  TypeInv'
<1>1. StoreOK /\ ReqOK
  BY DEF TypeInv
<1>2. CASE Crash(r)
  <2>1. ReqOK'
    BY <1>1, <1>2, IdleType, ReplaceRequest DEF Crash
  <2>2. StoreOK'
    BY <1>1, <1>2 DEF Crash, StoreOK, redisVars, s3Vars, histVars
  <2> QED BY <2>1, <2>2 DEF TypeInv
<1>3. CASE CutShort(r)
  <2>1. req[r].pc \in PcInside
    BY <1>3, PcTypes DEF CutShort, At, PcInside
  <2>2. Answer(r, ServerError) \/ Leave(r, ServerError)
    BY <1>3 DEF CutShort
  <2>3. ReqOK'
    BY <1>1, <2>1, <2>2, InsideFacts, ServerErrorType, LeaveType, AnswerType
  <2>4. StoreOK'
    BY <1>1, <1>3 DEF CutShort, AcquireLock, ReleaseLock, StoreOK, s3Vars, histVars
  <2> QED BY <2>3, <2>4 DEF TypeInv
<1> QED BY <1>2, <1>3

(* Keys expire.                                                            *)
LEMMA ExpiryType ==
  ASSUME TypeInv, NEW s \in Session, LockExpires(s) \/ KeyExpires(s)
  PROVE  TypeInv'
<1>1. StoreOK /\ ReqOK
  BY DEF TypeInv
<1>2. ReqOK'
  BY <1>1 DEF LockExpires, KeyExpires, ReqOK, Shape
<1>3. session' \in [Session -> {None} \cup UploadSessions]
  BY <1>1 DEF LockExpires, KeyExpires, DeleteSession, StoreOK
<1>4. chunk' \in [Session -> [Index -> {None} \cup Payload]]
  BY <1>1 DEF LockExpires, KeyExpires, DeleteChunks, StoreOK
<1>5. lock' \in [Session -> BOOLEAN]
  BY <1>1 DEF LockExpires, KeyExpires, ReleaseLock, StoreOK
<1>6. StoreOK'
  BY <1>1, <1>3, <1>4, <1>5 DEF LockExpires, KeyExpires, StoreOK, s3Vars, histVars
<1> QED BY <1>2, <1>6 DEF TypeInv

(* Every step of the service, faults included, keeps the typing invariant. *)
LEMMA TypeStep == TypeInv /\ [Next]_vars => TypeInv'
<1> SUFFICES ASSUME TypeInv, [Next]_vars PROVE TypeInv'
  OBVIOUS
<1>1. ASSUME NEW r \in Req, Arrive(r) PROVE TypeInv'
  BY <1>1, InitiateCheckType, GetType DEF Arrive
<1>2. ASSUME NEW r \in Req, Handle(r) PROVE TypeInv'
  BY <1>2, PatchType, CleanUpType, ScanType, S3Type, CommitType, RespondType
     DEF Handle, Work, FinalizeStep
<1>3. ASSUME NEW r \in Req, Fault(r) PROVE TypeInv'
  BY <1>3, CutType, S3Type, CommitType DEF Fault, RedisRaises, Cancel
<1>4. ASSUME NEW s \in Session, LockExpires(s) \/ KeyExpires(s) PROVE TypeInv'
  BY <1>4, ExpiryType
<1>5. CASE UNCHANGED vars
  BY <1>5 DEF vars, redisVars, s3Vars, histVars, TypeInv, StoreOK, ReqOK, Shape
<1> QED BY <1>1, <1>2, <1>3, <1>4, <1>5 DEF Next

(* Every variable keeps its type in every reachable state, whatever the    *)
(* faults: the handlers never save, index or answer with a value they do   *)
(* not have.                                                               *)
THEOREM TypeCorrect == Spec => []TypeOK
<1>1. Init => TypeInv
  BY InitType
<1>2. TypeInv => TypeOK
  BY DEF TypeInv, StoreOK, ReqOK, TypeOK
<1> QED BY <1>1, <1>2, TypeStep, PTL DEF Spec
=============================================================================
