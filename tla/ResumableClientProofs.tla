------------------------ MODULE ResumableClientProofs ------------------------
(***************************************************************************)
(* A client with the service is a behaviour of the service: it sends only  *)
(* requests that UploadService admits.  What is proved of the service      *)
(* holds for its clients.                                                  *)
(***************************************************************************)
EXTENDS ResumableClient, IngestProofs

(* A client that asks about a session has been given one, and one that     *)
(* sends has a chunk to send.                                              *)
ClientInv ==
  /\ file \in Files
  /\ phase \in Phases \cup {"done", "rejected"}
  /\ slot # None => phase \in Phases
  /\ phase \in Phases \ {"initiate"} => sid \in Session
  /\ phase = "send" => next \in 0 .. Len(file.chunks) - 1

(* The file of the client.                                                 *)
LEMMA FileFacts ==
  ASSUME ClientInv
  PROVE  /\ file.decl \in Declarations
         /\ Len(file.chunks) \in Nat /\ Len(file.chunks) > 0
         /\ phase = "send" => Part(next, file.chunks[next + 1]) \in ChunkRequests
<1>1. file \in Files /\ file.chunks # <<>>
      /\ file.decl \in Declarations /\ file.chunks \in Seq(Payload)
  BY ClientAssumption DEF ClientInv, ClientFiles
<1>2. Len(file.chunks) \in Nat /\ Len(file.chunks) > 0
  BY <1>1
<1>3. ASSUME phase = "send" PROVE Part(next, file.chunks[next + 1]) \in ChunkRequests
  <2> DEFINE i == next + 1
  <2>1. i \in 1 .. Len(file.chunks) /\ i - 1 = next
    BY <1>2, <1>3 DEF ClientInv
  <2>2. Part(i - 1, file.chunks[i]) \in ChunkRequests
    BY <1>1, <2>1, ClientAssumption
  <2> QED BY <2>1, <2>2
<1> QED BY <1>1, <1>2, <1>3

(* What the client sends is a request of UploadService.                    *)
LEMMA SendArrives ==
  ASSUME ClientInv, NEW r \in Req, Send(r)
  PROVE  Arrive(r)
BY FileFacts DEF Send, Arrive, ClientInv, Phases

(* Every step of client and service is a step of the service.              *)
LEMMA ClientStepServes == ClientInv /\ [ClientNext]_composedVars => [Next]_vars
<1> SUFFICES ASSUME ClientInv, [ClientNext]_composedVars PROVE [Next]_vars
  OBVIOUS
<1>1. ASSUME NEW r \in Req, Send(r) PROVE Next
  BY <1>1, SendArrives DEF Next
<1>2. ASSUME NEW r \in Req, Serve(r) PROVE Next
  BY <1>2 DEF Serve, Hear, Handle, Next
<1>3. ASSUME NEW r \in Req, Suffer(r) PROVE Next
  BY <1>3 DEF Suffer, Fault, Next
<1>4. ASSUME NEW s \in Session, TTL(s) \/ Expires(s) PROVE Next
  BY <1>4 DEF TTL, Expires, Next
<1>5. CASE TimesOut
  BY <1>5 DEF TimesOut
<1>6. CASE UNCHANGED composedVars
  BY <1>6 DEF composedVars
<1> QED BY <1>1, <1>2, <1>3, <1>4, <1>5, <1>6 DEF ClientNext

-----------------------------------------------------------------------------
(* The client keeps its invariant.  It goes on from an offset it is told.  *)
LEMMA GoOnKeeps ==
  ASSUME ClientInv, NEW offset, GoOnFrom(offset), sid \in Session,
         file' = file, slot' = None
  PROVE  ClientInv'
<1>1. PICK n \in 0 .. Len(file.chunks) :
        Turn(IF n = Len(file.chunks) THEN "finalize" ELSE "send", n)
  BY DEF GoOnFrom
<1>2. phase' = "send" => next' \in 0 .. Len(file'.chunks) - 1
  BY <1>1, FileFacts DEF Turn
<1>3. phase' \in {"finalize", "send"} /\ sid' \in Session /\ file' \in Files
  BY <1>1 DEF Turn, ClientInv
<1> QED BY <1>2, <1>3 DEF ClientInv, Phases

(* It goes to a phase other than "send".                                   *)
LEMMA TurnKeeps ==
  ASSUME ClientInv, NEW to \in {"initiate", "query", "finalize", "abort", "done",
                                "rejected"},
         Turn(to, next), to \in Phases \ {"initiate"} => sid \in Session,
         file' = file, slot' = None
  PROVE  ClientInv'
BY DEF ClientInv, Turn, Phases

(* It hears an answer.                                                     *)
LEMMA HearKeeps ==
  ASSUME TypeInv, ClientInv, NEW r \in Req, Hear(r)
  PROVE  ClientInv'
<1>1. CASE slot # r
  BY <1>1 DEF Hear, ClientInv
<1>2. CASE slot = r
  <2>1. phase \in Phases /\ file' = file /\ slot' = None
    BY <1>2, ClientAssumption DEF Hear, ClientInv
  <2>2. phase # "initiate" => sid \in Session
    BY <2>1 DEF ClientInv
  <2>3. CASE phase = "initiate"
    <3>1. HearInitiate(req[r])
      BY <1>2, <2>3 DEF Hear
    <3>2. CASE req[r].status = 201
      <4>1. req[r].pc = "reply" /\ ShapeOf(req[r])
        BY DEF Hear, Respond, At, TypeInv, ReqOK, Shape
      <4>2. phase' = "send" /\ next' = 0 /\ sid' \in Session
        BY <3>1, <3>2, <4>1 DEF HearInitiate, ShapeOf
      <4> QED BY <2>1, <4>2, FileFacts DEF ClientInv, Phases
    <3>3. CASE req[r].status # 201
      <4>1. Turn("done", next) \/ Turn("initiate", next)
        BY <3>1, <3>3 DEF HearInitiate
      <4>2. "done" \notin Phases
        BY DEF Phases
      <4> QED BY <2>1, <4>1, <4>2, TurnKeeps
    <3> QED BY <3>2, <3>3
  <2>4. CASE phase = "send"
    <3>1. HearPatch(req[r])
      BY <1>2, <2>4 DEF Hear
    <3> QED BY <2>1, <2>2, <2>4, <3>1, GoOnKeeps, TurnKeeps DEF HearPatch
  <2>5. CASE phase = "query"
    <3>1. HearQuery(req[r])
      BY <1>2, <2>5 DEF Hear
    <3> QED BY <2>1, <2>2, <2>5, <3>1, GoOnKeeps, TurnKeeps DEF HearQuery
  <2>6. CASE phase = "finalize"
    <3>1. HearFinalize(req[r])
      BY <1>2, <2>6 DEF Hear
    <3> QED BY <2>1, <2>2, <2>6, <3>1, TurnKeeps DEF HearFinalize
  <2>7. CASE phase = "abort"
    <3>1. HearAbort(req[r])
      BY <1>2, <2>7 DEF Hear
    <3> QED BY <2>1, <2>2, <2>7, <3>1, TurnKeeps DEF HearAbort
  <2> QED BY <2>1, <2>3, <2>4, <2>5, <2>6, <2>7 DEF Phases
<1> QED BY <1>1, <1>2

(* It loses a request, or gives up waiting for it.                         *)
LEMMA LossKeeps ==
  ASSUME ClientInv, phase \in Phases, AfterLoss \/ AfterTimeout,
         file' = file, slot' = None
  PROVE  ClientInv'
<1>1. phase # "initiate" => sid \in Session
  BY DEF ClientInv
<1>2. \/ phase \in {"send", "finalize"} /\ (Turn("query", next) \/ Turn("abort", next))
      \/ phase \in {"initiate", "query", "abort"} /\ Turn(phase, next)
  BY DEF AfterLoss, AfterTimeout, Phases
<1> QED BY <1>1, <1>2, TurnKeeps

(* Every step of client and service.                                       *)
LEMMA ClientInvStep ==
  TypeInv /\ ClientInv /\ [ClientNext]_composedVars => ClientInv'
<1> SUFFICES ASSUME TypeInv, ClientInv, [ClientNext]_composedVars PROVE ClientInv'
  OBVIOUS
<1>1. ASSUME NEW r \in Req, Send(r) PROVE ClientInv'
  <2>1. phase \in Phases
    BY <1>1 DEF Send, Phases
  <2> QED BY <1>1, <2>1 DEF Send, ClientInv
<1>2. ASSUME UNCHANGED clientVars PROVE ClientInv'
  BY <1>2 DEF clientVars, ClientInv
<1>3. ASSUME NEW r \in Req, Serve(r) PROVE ClientInv'
  BY <1>2, <1>3, HearKeeps DEF Serve
<1>4. ASSUME NEW r \in Req, Suffer(r) PROVE ClientInv'
  <2>1. CASE slot = r /\ AfterLoss /\ slot' = None
    <3>1. phase \in Phases /\ file' = file
      BY <1>4, <2>1, ClientAssumption DEF ClientInv, Suffer
    <3> QED BY <2>1, <3>1, LossKeeps
  <2>2. CASE UNCHANGED <<phase, slot, sid, next>>
    BY <1>4, <2>2 DEF Suffer, ClientInv
  <2> QED BY <1>4, <2>1, <2>2 DEF Suffer
<1>5. CASE TimesOut
  <2>1. phase \in Phases /\ file' = file
    BY <1>5 DEF TimesOut, Ended, ClientInv
  <2> QED BY <1>5, <2>1, LossKeeps DEF TimesOut
<1>6. ASSUME NEW s \in Session, TTL(s) \/ Expires(s) PROVE ClientInv'
  BY <1>2, <1>6 DEF TTL, Expires, ClientInv
<1>7. CASE UNCHANGED composedVars
  BY <1>2, <1>7 DEF composedVars
<1> QED BY <1>1, <1>3, <1>4, <1>5, <1>6, <1>7 DEF ClientNext

-----------------------------------------------------------------------------
(* A client together with the service behaves as the service does, for any *)
(* set of files, patient or not, however often it fails.                   *)
THEOREM ClientRefines == ClientSpec => Spec
<1>1. ClientInit => Init /\ TypeInv /\ ClientInv
  BY InitType DEF ClientInit, ClientInv, Phases
<1>2. TypeInv /\ ClientInv /\ [ClientNext]_composedVars
        => [Next]_vars /\ (TypeInv /\ ClientInv)'
  BY ClientStepServes, ClientInvStep, TypeStep
<1> QED BY <1>1, <1>2, PTL DEF ClientSpec, Spec

(* So whatever a resuming client does and whatever fails, what it, or any  *)
(* other client, was told of is there.                                     *)
THEOREM ClientAcksAreDurable == ClientSpec => []AckedIsDurable
BY ClientRefines, AcksAreDurable, PTL
-----------------------------------------------------------------------------
(* A verdict is about the client's own chunks: only they are sent, stored  *)
(* and scanned, and only a threat in one of them is answered 422.          *)
Given == {file.chunks[i] : i \in 1 .. Len(file.chunks)}

Just(q) ==
  /\ q.pc \in PcPatch => q.arg.data \in Given
  /\ q.pc = "mal_save" \/ q.status = 422 => ChunkHasThreat(file)

StoredIsGiven ==
  \A s \in Session, i \in Index : chunk[s][i] \in {None} \cup Given

VerdictInv ==
  /\ \A r \in Req : Just(req[r])
  /\ StoredIsGiven
  /\ RejectedHasThreat

(* No other exception of these is answered 422.                            *)
LEMMA OtherStatuses ==
  /\ \A e \in {"EntityNotFoundError", "ValidationError", "LockAcquisitionError",
               "RuntimeError"} :
       /\ PatchStatus(e) # 422 /\ AbortStatus(e) # 422 /\ FinalizeStatus(e) # 422
  /\ PatchStatus("ChecksumMismatchError") # 422 /\ PatchStatus("ValueError") # 422
  /\ ServerError # 422
BY DEF PatchStatus, AbortStatus, FinalizeStatus, GlobalStatus, ServerError,
       BadRequest, DomainErrors, ValidationErrors

(* The request r becomes one that is just.                                 *)
GoesJustly(r) == \E q : Becomes(r, q) /\ Just(q)

(* As when this is the record it becomes.                                  *)
LEMMA BecomesJust ==
  ASSUME NEW r \in Req, NEW q, Becomes(r, q), q.pc # "mal_save",
         q.pc \in PcPatch => q.arg.data \in Given,
         q.status = 422 => ChunkHasThreat(file)
  PROVE  GoesJustly(r)
<1>1. Just(q)
  BY DEF Just
<1> QED BY <1>1 DEF GoesJustly

(* To a label that is no accusation, with a status that is true.           *)
Passes(r, label) ==
  label # "mal_save" /\ (label \in PcPatch => req[r].pc \in PcPatch)

Tells(code) == code = 422 => ChunkHasThreat(file)

(* The ways in which a handler goes on.                                    *)
LEMMA JustForms ==
  ASSUME ReqOK, NEW r \in Req, Just(req[r])
  PROVE  /\ \A label : Go(r, label) /\ Passes(r, label) => GoesJustly(r)
         /\ \A label, u : GoWith(r, label, u) /\ Passes(r, label) => GoesJustly(r)
         /\ \A code : Leave(r, code) /\ Tells(code) => GoesJustly(r)
         /\ \A code, u : Conclude(r, code, u) /\ Tells(code) => GoesJustly(r)
         /\ \A code : Answer(r, code) /\ Tells(code) => GoesJustly(r)
<1>1. req[r] \in Requests /\ {"release", "purge_scan", "reply"} \cap PcPatch = {}
  BY DEF ReqOK, PcPatch
<1>2. ASSUME NEW label, Go(r, label), Passes(r, label)
      PROVE  GoesJustly(r)
  <2> DEFINE q == [req[r] EXCEPT !.pc = label]
  <2>1. q.pc = label /\ q.arg = req[r].arg /\ q.status = req[r].status
    BY <1>1 DEF Requests
  <2>2. Becomes(r, q)
    BY <1>2 DEF Go
  <2> HIDE DEF q
  <2> QED BY <1>1, <1>2, <2>1, <2>2, BecomesJust DEF Just, Passes
<1>3. ASSUME NEW label, NEW u, GoWith(r, label, u), Passes(r, label)
      PROVE  GoesJustly(r)
  <2> DEFINE q == [req[r] EXCEPT !.pc = label, !.snap = u]
  <2>1. q.pc = label /\ q.arg = req[r].arg /\ q.status = req[r].status
    BY <1>1 DEF Requests
  <2>2. Becomes(r, q)
    BY <1>3 DEF GoWith
  <2> HIDE DEF q
  <2> QED BY <1>1, <1>3, <2>1, <2>2, BecomesJust DEF Just, Passes
<1>4. ASSUME NEW code, Leave(r, code), Tells(code)
      PROVE  GoesJustly(r)
  <2> DEFINE q == [req[r] EXCEPT !.pc = "release", !.status = code]
  <2>1. q.pc = "release" /\ q.status = code
    BY <1>1 DEF Requests
  <2>2. Becomes(r, q)
    BY <1>4 DEF Leave
  <2> HIDE DEF q
  <2> QED BY <1>1, <1>4, <2>1, <2>2, BecomesJust DEF Tells
<1>5. ASSUME NEW code, NEW u, Conclude(r, code, u), Tells(code)
      PROVE  GoesJustly(r)
  <2> DEFINE q == [req[r] EXCEPT !.pc = "purge_scan", !.status = code, !.snap = u]
  <2>1. q.pc = "purge_scan" /\ q.status = code
    BY <1>1 DEF Requests
  <2>2. Becomes(r, q)
    BY <1>5 DEF Conclude
  <2> HIDE DEF q
  <2> QED BY <1>1, <1>5, <2>1, <2>2, BecomesJust DEF Tells
<1>6. ASSUME NEW code, Answer(r, code), Tells(code)
      PROVE  GoesJustly(r)
  <2> DEFINE q == NewRequest("reply", req[r].op, req[r].on, req[r].snap, None, code)
  <2>1. q.pc = "reply" /\ q.status = code
    BY DEF NewRequest
  <2>2. Becomes(r, q)
    BY <1>6 DEF Answer
  <2> HIDE DEF q
  <2> QED BY <1>1, <1>6, <2>1, <2>2, BecomesJust DEF Tells
<1> QED BY <1>2, <1>3, <1>4, <1>5, <1>6

(* To a label with an argument that a client of this file may have sent.   *)
Asks(label, a) ==
  label # "mal_save" /\ (label \in PcPatch => a.data \in Given)

(* A request that comes in or ends.                                        *)
LEMMA NewIsJust ==
  ASSUME NEW r \in Req
  PROVE  /\ \A label, op, s, u, a, code :
              Becomes(r, NewRequest(label, op, s, u, a, code)) /\ Asks(label, a)
                /\ code # 422 => GoesJustly(r)
         /\ \A op, s, code : Refuse(r, op, s, code) /\ code # 422 => GoesJustly(r)
         /\ \A op, s, a, label : Receive(r, op, s, a, label) /\ Asks(label, a)
              => GoesJustly(r)
<1>1. ASSUME NEW label, NEW op, NEW s, NEW u, NEW a, NEW code,
             Becomes(r, NewRequest(label, op, s, u, a, code)),
             Asks(label, a), code # 422
      PROVE  GoesJustly(r)
  <2> DEFINE q == NewRequest(label, op, s, u, a, code)
  <2>1. q.pc = label /\ q.arg = a /\ q.status = code
    BY DEF NewRequest
  <2>2. Becomes(r, q)
    BY <1>1
  <2> HIDE DEF q
  <2> QED BY <1>1, <2>1, <2>2, BecomesJust DEF Asks
<1>2. ASSUME NEW op, NEW s, NEW code, Refuse(r, op, s, code), code # 422
      PROVE  GoesJustly(r)
  <2>1. Becomes(r, NewRequest("reply", op, s, None, None, code))
    BY <1>2 DEF Refuse
  <2> QED BY <1>1, <1>2, <2>1 DEF PcPatch, Asks
<1>3. ASSUME NEW op, NEW s, NEW a, NEW label, Receive(r, op, s, a, label),
             Asks(label, a)
      PROVE  GoesJustly(r)
  <2>1. Becomes(r, NewRequest(label, op, s, session[s], a, 0))
    BY <1>3 DEF Receive
  <2> QED BY <1>1, <1>3, <2>1
<1> QED BY <1>1, <1>2, <1>3

(* Chunks of the file are stored, and stored ones disappear.               *)
StoresGiven ==
  \A s \in Session, i \in Index :
    chunk'[s][i] \in {None, chunk[s][i]} \cup Given

(* The client sends chunks of its file only.                               *)
LEMMA SendIsJust ==
  ASSUME TypeInv, ClientInv, NEW r \in Req, Send(r)
  PROVE  GoesJustly(r) /\ chunk' = chunk
<1>1. chunk' = chunk
  BY DEF Send, InitiateCheck, PatchGet, QueryGet, FinalizeGet, AbortGet, redisVars
<1> SUFFICES GoesJustly(r)
  BY <1>1
<1>2. \A x : \A label \in {"reply", "init_save", "final_lock", "abort_lock"} :
        Asks(label, x)
  BY DEF PcPatch, Asks
<1>3. CASE InitiateCheck(r, file.decl)
  <2> DEFINE u == NewUploadSession(file.decl)
  <2>1. \/ Becomes(r, NewRequest("reply", "initiate", None, u, None, 200))
        \/ \E s : Becomes(r, NewRequest("init_save", "initiate", s, u, None, 0))
    BY <1>3 DEF InitiateCheck
  <2> HIDE DEF u
  <2> QED BY <1>2, <2>1, NewIsJust
<1>4. CASE phase = "send" /\ PatchGet(r, sid, Part(next, file.chunks[next + 1]))
  <2> DEFINE a == Part(next, file.chunks[next + 1])
  <2>1. a.data \in Given
    <3>1. next + 1 \in 1 .. Len(file.chunks)
      BY <1>4, FileFacts DEF ClientInv
    <3> QED BY <3>1 DEF Part, Given
  <2>2. PatchGet(r, sid, a)
    BY <1>4
  <2> HIDE DEF a
  <2>3. \/ \E code : Refuse(r, "patch", sid, code) /\ code # 422
        \/ Receive(r, "patch", sid, a, "patch_lock")
    BY <2>2, OtherStatuses DEF PatchGet
  <2>4. Asks("patch_lock", a)
    BY <2>1 DEF Asks
  <2> QED BY <2>3, <2>4, NewIsJust
<1>5. CASE QueryGet(r, sid)
  <2>1. PICK code \in {200, 404} :
          Becomes(r, NewRequest("reply", "head", sid, session[sid], None, code))
    BY <1>5 DEF QueryGet
  <2> QED BY <1>2, <2>1, NewIsJust
<1>6. CASE FinalizeGet(r, sid)
  <2>1. \/ \E code : Refuse(r, "finalize", sid, code) /\ code # 422
        \/ Receive(r, "finalize", sid, None, "final_lock")
    BY <1>6, OtherStatuses DEF FinalizeGet
  <2> QED BY <1>2, <2>1, NewIsJust
<1>7. CASE AbortGet(r, sid)
  <2>1. \/ \E code : Refuse(r, "abort", sid, code) /\ code # 422
        \/ Receive(r, "abort", sid, None, "abort_lock")
    BY <1>7, OtherStatuses DEF AbortGet
  <2> QED BY <1>2, <2>1, NewIsJust
<1> QED BY <1>3, <1>4, <1>5, <1>6, <1>7 DEF Send

(* A scan finds a threat only in a chunk of the file.                      *)
LEMMA ScanIsJust ==
  ASSUME TypeInv, VerdictInv, NEW r \in Req, Scan(r)
  PROVE  GoesJustly(r)
<1>1. ReqOK /\ req[r] \in Requests /\ Just(req[r]) /\ req[r].on \in Session
  BY DEF TypeInv, ReqOK, VerdictInv, Shape, ShapeOf, Scan, At, PcInside, PcCritical, PcScan
<1> DEFINE s == req[r].on
           i == Len(req[r].seen)
<1>2. CASE ~HasChunk(s, i)
  <2>1. Go(r, "s3_initiate") /\ Passes(r, "s3_initiate")
    BY <1>2 DEF Scan, PcPatch, Passes
  <2> QED BY <1>1, <2>1, JustForms
<1>3. CASE HasChunk(s, i) /\ ThreatIn(chunk[s][i], req[r].seen)
  <2>1. ChunkHasThreat(file)
    BY <1>1, <1>3 DEF HasChunk, ThreatIn, VerdictInv, StoredIsGiven, Given, ChunkHasThreat
  <2> DEFINE q == [req[r] EXCEPT !.pc = "mal_save", !.snap = Failed(req[r].snap)]
  <2>2. q.pc = "mal_save"
    BY <1>1 DEF Requests
  <2>3. Becomes(r, q)
    BY <1>3 DEF Scan, GoWith
  <2>4. Just(q)
    BY <2>1, <2>2 DEF Just, PcPatch
  <2> HIDE DEF q
  <2> QED BY <2>3, <2>4 DEF GoesJustly
<1>4. CASE HasChunk(s, i) /\ ~ThreatIn(chunk[s][i], req[r].seen)
  <2> DEFINE q == [req[r] EXCEPT !.seen = Append(@, chunk[s][i])]
  <2>1. q.pc = req[r].pc /\ q.arg = req[r].arg /\ q.status = req[r].status
    BY <1>1 DEF Requests
  <2>2. Becomes(r, q)
    BY <1>4 DEF Scan
  <2>3. Just(q)
    BY <1>1, <2>1 DEF Just
  <2> HIDE DEF q
  <2> QED BY <2>2, <2>3 DEF GoesJustly
<1> QED BY <1>2, <1>3, <1>4


(* Nor does another step of a handler, or its end, change that.            *)
LEMMA HandlersAreJust ==
  ASSUME TypeInv, VerdictInv, NEW r \in Req, Work(r) \/ Respond(r) \/ Fault(r)
  PROVE  GoesJustly(r) /\ StoresGiven
<1>1. ReqOK /\ req[r] \in Requests /\ Just(req[r]) /\ StoreOK
  BY DEF TypeInv, ReqOK, VerdictInv
<1>2. \A label \in {"release", "reply", "idle", "scan", "s3_part", "s3_complete",
                   "s3_abort", "s3_initiate", "register", "publish", "fail_save",
                   "purge_scan", "purge_delete", "drop"} :
        label \notin PcPatch /\ label # "mal_save" /\ Passes(r, label)
  BY DEF PcPatch, Passes
<1>3. ASSUME UNCHANGED chunk PROVE StoresGiven
  BY <1>3 DEF StoresGiven
<1>4. CASE InitiateSave(r)
  BY <1>1, <1>3, <1>4, JustForms DEF InitiateSave, Tells
<1>5. CASE PatchLock(r)
  <2>1. \/ Go(r, "patch_store")
        \/ \E code : code # 422 /\ (Leave(r, code) \/ Answer(r, code))
    BY <1>5, OtherStatuses DEF PatchLock
  <2>2. req[r].pc \in PcPatch /\ UNCHANGED chunk
    BY <1>5 DEF PatchLock, At, PcPatch
  <2> QED BY <1>1, <1>3, <2>1, <2>2, JustForms DEF Tells, Passes
<1>6. CASE PatchStore(r)
  <2>1. \/ GoWith(r, "patch_save", UpdateOffset(req[r].snap, Size[req[r].arg.data]))
        \/ Leave(r, PatchStatus("ValueError"))
    BY <1>6 DEF PatchStore
  <2>2. req[r].pc \in PcPatch
    BY <1>6 DEF PatchStore, At, PcPatch
  <2>3. GoesJustly(r)
    BY <1>1, <2>1, <2>2, JustForms, OtherStatuses DEF Tells, Passes
  <2>4. req[r].arg.data \in Given
    BY <1>1, <2>2 DEF Just
  <2>5. SaveChunk(req[r].on, req[r].arg.index, req[r].arg.data)
    BY <1>6 DEF PatchStore
  <2>6. StoresGiven
    BY <1>1, <2>4, <2>5 DEF StoreOK, SaveChunk, StoresGiven
  <2> QED BY <2>3, <2>6
<1>7. CASE PatchSave(r)
  BY <1>1, <1>3, <1>7, JustForms DEF PatchSave, Tells
<1>8. CASE AbortLock(r)
  <2>1. \/ Conclude(r, 204, Aborted(req[r].snap))
        \/ \E code : code # 422 /\ Answer(r, code)
    BY <1>8, OtherStatuses DEF AbortLock
  <2>2. UNCHANGED chunk
    BY <1>8 DEF AbortLock
  <2> QED BY <1>1, <1>3, <2>1, <2>2, JustForms DEF Tells, Passes
<1>9. CASE FinalizeStep(r)
  <2>1. UNCHANGED chunk
    BY <1>9 DEF FinalizeStep, FinalizeLock, Scan, MalwareSave, S3Initiate, S3Part,
                S3Complete, S3Abort, FailSave, Register, Publish, redisVars
  <2> SUFFICES GoesJustly(r)
    BY <1>3, <2>1
  <2>2. CASE FinalizeLock(r)
    BY <1>1, <1>2, <2>2, JustForms, OtherStatuses DEF FinalizeLock, Tells
  <2>3. CASE Scan(r)
    BY <2>3, ScanIsJust
  <2>4. CASE MalwareSave(r)
    <3>1. ChunkHasThreat(file)
      BY <1>1, <2>4 DEF MalwareSave, At, Just
    <3> QED BY <1>1, <2>4, <3>1, JustForms DEF MalwareSave, Tells
  <2>5. CASE S3Initiate(r)
    <3>1. PICK id : Becomes(r, [req[r] EXCEPT !.pc = "s3_part", !.upload = id])
      BY <2>5 DEF S3Initiate
    <3> DEFINE q == [req[r] EXCEPT !.pc = "s3_part", !.upload = id]
    <3>2. q.pc = "s3_part" /\ q.status = req[r].status /\ Becomes(r, q)
      BY <1>1, <3>1 DEF Requests
    <3> HIDE DEF q
    <3> QED BY <1>1, <1>2, <3>2, BecomesJust DEF Just
  <2>6. CASE S3Part(r)
    <3>1. CASE Go(r, "s3_complete")
      BY <1>1, <1>2, <3>1, JustForms
    <3>2. ASSUME NEW p, UploadPart(r, p) PROVE GoesJustly(r)
      <4> DEFINE q == [req[r] EXCEPT !.parts = Append(@, p)]
      <4>1. q.pc = "s3_part" /\ q.status = req[r].status
        BY <1>1, <2>6 DEF Requests, S3Part, At
      <4>2. Becomes(r, q)
        BY <3>2 DEF UploadPart
      <4> HIDE DEF q
      <4> QED BY <1>1, <1>2, <4>1, <4>2, BecomesJust DEF Just
    <3> QED BY <2>6, <3>1, <3>2 DEF S3Part
  <2>7. CASE S3Complete(r)
    BY <1>1, <1>2, <2>7, JustForms DEF S3Complete
  <2>8. CASE S3Abort(r)
    BY <1>1, <1>2, <2>8, JustForms DEF S3Abort
  <2>9. CASE FailSave(r)
    BY <1>1, <2>9, JustForms, OtherStatuses DEF FailSave, Tells
  <2>10. CASE Register(r)
    BY <1>1, <1>2, <2>10, JustForms DEF Register
  <2>11. CASE Publish(r)
    BY <1>1, <2>11, JustForms DEF Publish, Tells
  <2> QED BY <1>9, <2>2, <2>3, <2>4, <2>5, <2>6, <2>7, <2>8, <2>9, <2>10,
             <2>11 DEF FinalizeStep
<1>10. CASE PurgeScan(r)
  <2> DEFINE q == [req[r] EXCEPT !.pc = "purge_delete",
                                 !.found = StoredIndices(req[r].on)]
  <2>1. q.pc = "purge_delete" /\ q.status = req[r].status
    BY <1>1 DEF Requests
  <2>2. Becomes(r, q) /\ UNCHANGED chunk
    BY <1>10 DEF PurgeScan, redisVars
  <2> HIDE DEF q
  <2> QED BY <1>1, <1>2, <1>3, <2>1, <2>2, BecomesJust DEF Just
<1>11. CASE PurgeDelete(r)
  <2>1. Go(r, "drop") /\ DeleteChunks(req[r].on, req[r].found)
    BY <1>11 DEF PurgeDelete
  <2>2. StoresGiven
    BY <1>1, <2>1 DEF StoreOK, DeleteChunks, StoresGiven
  <2> QED BY <1>1, <1>2, <2>1, <2>2, JustForms DEF Tells, Passes
<1>12. CASE Drop(r)
  BY <1>1, <1>2, <1>3, <1>12, JustForms DEF Drop
<1>13. CASE Release(r)
  BY <1>1, <1>3, <1>13, JustForms DEF Release, Just, Tells
<1>14. CASE Respond(r) \/ Crash(r)
  <2>1. Becomes(r, IdleRequest) /\ UNCHANGED chunk
    BY <1>14 DEF Respond, Crash, redisVars
  <2> QED BY <1>2, <1>3, <2>1, NewIsJust DEF IdleRequest, Asks
<1>15. CASE RedisRaises(r) \/ Cancel(r)
  <2>1. (Answer(r, ServerError) \/ Leave(r, ServerError)) /\ UNCHANGED chunk
    BY <1>15 DEF RedisRaises, Cancel, CutShort
  <2> QED BY <1>1, <1>3, <2>1, JustForms, OtherStatuses DEF Tells
<1>16. CASE S3Raises(r)
  <2>1. (Leave(r, ServerError) \/ Go(r, "s3_abort")) /\ UNCHANGED chunk
    BY <1>16 DEF S3Raises, redisVars
  <2> QED BY <1>1, <1>2, <1>3, <2>1, JustForms, OtherStatuses DEF Tells
<1>17. CASE S3AbortFails(r)
  BY <1>1, <1>2, <1>3, <1>17, JustForms DEF S3AbortFails, redisVars
<1>18. CASE PublishRaises(r)
  BY <1>1, <1>3, <1>18, JustForms, OtherStatuses DEF PublishRaises, redisVars, Tells
<1> QED BY <1>4, <1>5, <1>6, <1>7, <1>8, <1>9, <1>10, <1>11, <1>12, <1>13, <1>14,
           <1>15, <1>16, <1>17, <1>18
        DEF Work, PatchStep, CleanUpStep, Fault

(* A step of a request keeps what is known of requests and chunks.         *)
LEMMA JustlyKept ==
  ASSUME TypeInv, VerdictInv, NEW r \in Req, GoesJustly(r), StoresGiven, file' = file
  PROVE  (\A x \in Req : Just(req[x]))' /\ StoredIsGiven'
<1>1. PICK q : Becomes(r, q) /\ Just(q)
  BY DEF GoesJustly
<1>2. \A x \in Req : req'[x] = IF x = r THEN q ELSE req[x]
  BY <1>1 DEF Becomes, TypeInv, ReqOK
<1>3. \A x \in Req : Just(req'[x])
  BY <1>1, <1>2 DEF VerdictInv
<1>4. Given' = Given /\ (ChunkHasThreat(file))' = ChunkHasThreat(file)
  BY DEF Given, ChunkHasThreat
<1>5. \A x \in Req : (Just(req[x]))'
  BY <1>3, <1>4 DEF Just
<1>6. StoredIsGiven'
  BY <1>4 DEF StoresGiven, StoredIsGiven, VerdictInv
<1> QED BY <1>5, <1>6

(* The client is rejected only by an answer 422.                           *)
LEMMA HearsTruth ==
  ASSUME VerdictInv, ClientInv, NEW r \in Req, Hear(r), phase' = "rejected"
  PROVE  ChunkHasThreat(file)
<1>1. CASE slot # r
  BY <1>1 DEF Hear, VerdictInv, RejectedHasThreat
<1>2. CASE slot = r
  <2>1. phase \in Phases
    BY <1>2, ClientAssumption DEF ClientInv
  <2>2. \A offset : ~GoOnFrom(offset)
    BY DEF GoOnFrom, Turn
  <2>3. CASE phase = "initiate"
    BY <1>2, <2>3 DEF Hear, HearInitiate, Turn
  <2>4. CASE phase = "send"
    BY <1>2, <2>2, <2>4 DEF Hear, HearPatch, Turn
  <2>5. CASE phase = "query"
    BY <1>2, <2>2, <2>5 DEF Hear, HearQuery, Turn
  <2>6. CASE phase = "abort"
    BY <1>2, <2>6 DEF Hear, HearAbort, Turn
  <2>7. CASE phase = "finalize"
    <3>1. HearFinalize(req[r])
      BY <1>2, <2>7 DEF Hear
    <3>2. req[r].status = 422
      BY <3>1 DEF HearFinalize, Turn
    <3> QED BY <3>2 DEF VerdictInv, Just
  <2> QED BY <2>1, <2>3, <2>4, <2>5, <2>6, <2>7 DEF Phases
<1> QED BY <1>1, <1>2

(* Every step of client and service keeps the invariant.                   *)
LEMMA VerdictStep ==
  TypeInv /\ ClientInv /\ VerdictInv /\ [ClientNext]_composedVars => VerdictInv'
<1> SUFFICES ASSUME TypeInv, ClientInv, VerdictInv, [ClientNext]_composedVars
             PROVE  VerdictInv'
  OBVIOUS
<1>1. file' = file
  BY DEF ClientNext, Send, Serve, Hear, Suffer, TTL, Expires, TimesOut, clientVars,
         composedVars
<1>2. ASSUME phase' # "rejected" \/ phase' = phase PROVE RejectedHasThreat'
  BY <1>1, <1>2 DEF RejectedHasThreat, VerdictInv, ChunkHasThreat
<1>3. ASSUME NEW r \in Req, Send(r) PROVE VerdictInv'
  <2>1. GoesJustly(r) /\ StoresGiven
    BY <1>3, SendIsJust DEF StoresGiven
  <2> QED BY <1>1, <1>2, <1>3, <2>1, JustlyKept DEF VerdictInv, Send
<1>4. ASSUME NEW r \in Req, Serve(r) PROVE VerdictInv'
  <2>1. GoesJustly(r) /\ StoresGiven
    BY <1>4, HandlersAreJust DEF Serve, Hear
  <2>2. RejectedHasThreat'
    <3>1. CASE Hear(r)
      BY <1>1, <3>1, HearsTruth DEF RejectedHasThreat, ChunkHasThreat
    <3>2. CASE UNCHANGED clientVars
      BY <1>2, <3>2 DEF clientVars
    <3> QED BY <1>4, <3>1, <3>2 DEF Serve
  <2> QED BY <1>1, <2>1, <2>2, JustlyKept DEF VerdictInv
<1>5. ASSUME NEW r \in Req, Suffer(r) PROVE VerdictInv'
  <2>1. GoesJustly(r) /\ StoresGiven
    BY <1>5, HandlersAreJust DEF Suffer, Fault
  <2>2. phase' # "rejected" \/ phase' = phase
    BY <1>5 DEF Suffer, AfterLoss, Turn
  <2> QED BY <1>1, <1>2, <2>1, <2>2, JustlyKept DEF VerdictInv
<1>6. ASSUME UNCHANGED <<req, chunk>>, phase' # "rejected" \/ phase' = phase
      PROVE  VerdictInv'
  <2>1. Given' = Given /\ (ChunkHasThreat(file))' = ChunkHasThreat(file)
    BY <1>1 DEF Given, ChunkHasThreat
  <2>2. (\A x \in Req : Just(req[x]))' /\ StoredIsGiven'
    BY <1>6, <2>1 DEF VerdictInv, Just, StoredIsGiven
  <2> QED BY <1>2, <1>6, <2>2 DEF VerdictInv
<1>7. ASSUME NEW s \in Session, TTL(s) PROVE VerdictInv'
  BY <1>6, <1>7 DEF TTL, LockExpires, clientVars
<1>8. CASE TimesOut
  <2>1. phase' # "rejected" \/ phase' = phase
    BY <1>8 DEF TimesOut, AfterTimeout, AfterLoss, Turn
  <2>2. UNCHANGED <<req, chunk>>
    BY <1>8 DEF TimesOut, vars, redisVars
  <2> QED BY <1>6, <2>1, <2>2
<1>9. CASE UNCHANGED composedVars
  BY <1>6, <1>9 DEF composedVars, clientVars, vars, redisVars
<1>10. ASSUME NEW s \in Session, Expires(s) PROVE VerdictInv'
  <2>1. UNCHANGED <<file, phase, req>>
    BY <1>10 DEF Expires, KeyExpires
  <2>2. \A x \in Session, i \in Index : chunk'[x][i] \in {None, chunk[x][i]}
    <3>1. CASE UNCHANGED chunk
      BY <3>1
    <3>2. ASSUME NEW i \in Index, DeleteChunks(s, {i})
          PROVE  \A x \in Session, j \in Index : chunk'[x][j] \in {None, chunk[x][j]}
      BY <3>2 DEF DeleteChunks, TypeInv, StoreOK
    <3> QED BY <1>10, <3>1, <3>2 DEF Expires, KeyExpires, StoredIndices
  <2>3. StoredIsGiven'
    BY <1>1, <2>2 DEF VerdictInv, StoredIsGiven, Given
  <2> QED BY <2>1, <2>3 DEF VerdictInv, Just, Given, RejectedHasThreat, ChunkHasThreat
<1> QED BY <1>3, <1>4, <1>5, <1>7, <1>8, <1>9, <1>10 DEF ClientNext

(* A client is told that its file is infected only if it is: whatever      *)
(* fails, lapses or is answered late, and whatever other sessions hold.    *)
THEOREM RejectionsAreRight == ClientSpec => []RejectedHasThreat
<1>1. ClientInit => TypeInv /\ ClientInv /\ VerdictInv
  <2> SUFFICES ASSUME ClientInit PROVE TypeInv /\ ClientInv /\ VerdictInv
    OBVIOUS
  <2>1. TypeInv /\ ClientInv
    BY InitType DEF ClientInit, ClientInv, Phases
  <2>2. \A r \in Req : req[r] = IdleRequest
    BY DEF ClientInit, Init, InitState
  <2>3. IdleRequest.pc = "idle" /\ IdleRequest.status = 0
    BY DEF IdleRequest, NewRequest
  <2>4. StoredIsGiven
    BY DEF ClientInit, Init, InitState, StoredIsGiven
  <2>5. \A r \in Req : Just(req[r])
    BY <2>2, <2>3 DEF Just, PcPatch
  <2> QED BY <2>1, <2>4, <2>5 DEF VerdictInv, RejectedHasThreat, ClientInit
<1>2. TypeInv /\ ClientInv /\ VerdictInv /\ [ClientNext]_composedVars
        => (TypeInv /\ ClientInv /\ VerdictInv)'
  BY ClientStepServes, ClientInvStep, TypeStep, VerdictStep
<1>3. VerdictInv => RejectedHasThreat
  BY DEF VerdictInv
<1> QED BY <1>1, <1>2, <1>3, PTL DEF ClientSpec
=============================================================================
