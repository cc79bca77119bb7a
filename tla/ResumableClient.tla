---------------------------- MODULE ResumableClient ----------------------------
(***************************************************************************)
(* One client of the service that wants a file stored and keeps to the     *)
(* documented API: initiate, PATCH the chunks in order, finalize; after an *)
(* answer it did not get or could not use, HEAD and go on from the offset  *)
(* it is told, or DELETE and start again.  A request it gave up waiting    *)
(* for may still be running.  The service is UploadService; the client is  *)
(* external.                                                               *)
(***************************************************************************)
EXTENDS UploadProperties

CONSTANTS
  Files,      \* what the client may want stored: [decl, chunks]
  Impatient,  \* TRUE: after a PATCH that timed out it resumes with HEAD,
              \* FALSE: it aborts that session and starts a new one
  MaxFaults   \* bounds the faults and the timeouts of a behaviour

ClientFiles == [decl : Declarations, chunks : Seq(Payload)]

Part(i, p) == [index |-> i, data |-> p, checksum |-> p]

(* The bytes of the first n chunks.                                        *)
OffsetOf(f, n) == TotalSize(SubSeq(f.chunks, 1, n))

ASSUME ClientAssumption ==
  /\ MaxFaults \in Nat /\ None \notin Req \cup Session
  /\ Impatient \in BOOLEAN
  /\ Files \subseteq ClientFiles
  /\ \A f \in Files :
       /\ f.chunks # <<>>
       /\ \A i \in 1 .. Len(f.chunks) : Part(i - 1, f.chunks[i]) \in ChunkRequests

VARIABLES
  file,    \* the file of this client
  phase,   \* what it does next, or how it ended
  slot,    \* the request it waits for, None if it waits for none
  sid,     \* the session it was given
  next,    \* chunks it believes are stored
  faults   \* faults and timeouts so far

clientVars  == <<file, phase, slot, sid, next, faults>>
composedVars == <<vars, clientVars>>

Phases == {"initiate", "send", "query", "finalize", "abort"}
Ended  == phase \in {"done", "rejected"}

ClientInit ==
  /\ Init
  /\ file \in Files
  /\ phase = "initiate" /\ slot = None /\ sid = None /\ next = 0 /\ faults = 0

-----------------------------------------------------------------------------
(* The client sends the request of its phase.                              *)
Send(r) ==
  /\ slot = None
  /\ \/ phase = "initiate" /\ InitiateCheck(r, file.decl)
     \/ phase = "send" /\ PatchGet(r, sid, Part(next, file.chunks[next + 1]))
     \/ phase = "query" /\ QueryGet(r, sid)
     \/ phase = "finalize" /\ FinalizeGet(r, sid)
     \/ phase = "abort" /\ AbortGet(r, sid)
  /\ slot' = r
  /\ UNCHANGED <<file, phase, sid, next, faults>>

(* To another phase, knowing n chunks to be stored.                        *)
Turn(to, n) == phase' = to /\ next' = n /\ UNCHANGED sid

(* PATCH and HEAD answer with the offset reached: the chunks up to it      *)
(* need not be sent again.                                                 *)
GoOnFrom(offset) ==
  \E n \in 0 .. Len(file.chunks) :
    /\ OffsetOf(file, n) = offset
    /\ Turn(IF n = Len(file.chunks) THEN "finalize" ELSE "send", n)

(* What the client makes of the answer to each request.                    *)
HearInitiate(q) ==
  IF q.status = 201 THEN phase' = "send" /\ next' = 0 /\ sid' = q.on
  ELSE IF q.status = 200 THEN Turn("done", next)
  ELSE Turn("initiate", next)

HearPatch(q) ==
  IF q.status = 200 THEN GoOnFrom(q.snap.offset)
  ELSE IF q.status = 404 THEN Turn("initiate", next)
  ELSE Turn("query", next)

HearQuery(q) ==
  IF q.status = 404 THEN Turn("initiate", next)
  ELSE GoOnFrom(q.snap.offset)

HearFinalize(q) ==
  IF q.status = 200 THEN Turn("done", next)
  ELSE IF q.status = 422 THEN Turn("rejected", next)
  ELSE IF q.status = 404 THEN Turn("initiate", next)
  ELSE IF q.status = 400 THEN Turn("abort", next)
  ELSE Turn("query", next)

HearAbort(q) ==
  IF q.status \in {204, 404} THEN Turn("initiate", next) ELSE Turn("abort", next)

(* A response is sent; if the client still waits for it, it reacts.        *)
Hear(r) ==
  /\ Respond(r)
  /\ IF slot = r
       THEN /\ slot' = None
            /\ CASE phase = "initiate" -> HearInitiate(req[r])
                 [] phase = "send"     -> HearPatch(req[r])
                 [] phase = "query"    -> HearQuery(req[r])
                 [] phase = "finalize" -> HearFinalize(req[r])
                 [] phase = "abort"    -> HearAbort(req[r])
       ELSE UNCHANGED <<phase, slot, sid, next>>
  /\ UNCHANGED <<file, faults>>

-----------------------------------------------------------------------------
(* The connection broke and the request with it: look where it got to.     *)
AfterLoss ==
  IF phase \in {"send", "finalize"} THEN Turn("query", next) ELSE Turn(phase, next)

(* The request may still be running.                                       *)
AfterTimeout ==
  IF phase = "send" /\ ~Impatient THEN Turn("abort", next) ELSE AfterLoss

MayFail == faults < MaxFaults /\ faults' = faults + 1

(* The answer takes too long, or the request did not even arrive.          *)
TimesOut ==
  /\ ~Ended /\ MayFail
  /\ AfterTimeout /\ slot' = None
  /\ UNCHANGED <<vars, file>>

(* A fault of the service; the client notices a worker that dies.          *)
Suffer(r) ==
  /\ MayFail
  /\ \/ Crash(r) /\ slot = r /\ AfterLoss /\ slot' = None
     \/ Crash(r) /\ slot # r /\ UNCHANGED <<phase, slot, sid, next>>
     \/ /\ \/ RedisRaises(r) \/ Cancel(r) \/ S3Raises(r)
           \/ S3AbortFails(r) \/ PublishRaises(r)
        /\ UNCHANGED <<phase, slot, sid, next>>
  /\ UNCHANGED file

-----------------------------------------------------------------------------
Serve(r) == (Work(r) /\ UNCHANGED clientVars) \/ Hear(r)

TTL(s) == LockExpires(s) /\ UNCHANGED clientVars

(* A session or chunk key expires.  All are written with the same TTL and  *)
(* a patient client's chunks in order, so a chunk does not outlive the     *)
(* next one; a PATCH that an impatient client gave up may store its chunk  *)
(* after later ones.                                                       *)
Expires(s) ==
  /\ MayFail
  /\ KeyExpires(s)
  /\ Impatient \/ \A i, j \in Index :
                    i < j /\ chunk[s][i] # None => chunk'[s][j] = chunk[s][j]
  /\ UNCHANGED <<file, phase, slot, sid, next>>

ClientNext ==
  \/ \E r \in Req : Send(r) \/ Serve(r) \/ Suffer(r)
  \/ \E s \in Session : TTL(s) \/ Expires(s)
  \/ TimesOut

(* As in UploadService, and a client that goes on sending.                 *)
ClientFairness ==
  /\ \A r \in Req : WF_composedVars(Serve(r))
  /\ \A s \in Session : WF_composedVars(TTL(s))
  /\ WF_composedVars(\E r \in Req : Send(r))

ClientSpec     == ClientInit /\ [][ClientNext]_composedVars
FairClientSpec == ClientSpec /\ ClientFairness

-----------------------------------------------------------------------------
(* A client that ends with "done" has its whole file behind its key: every *)
(* chunk, in order, whichever answers were lost and whatever failed, if it *)
(* is patient, locks do not lapse and at most one key expires.             *)
FinishedIsWhole ==
  phase = "done" => object[ObjectKey(file.decl)] = file.chunks

(* The signature is inside one of its chunks.  A file that has it across   *)
(* two chunks has none that the scanner finds, and is stored.              *)
ChunkHasThreat(f) == \E i \in 1 .. Len(f.chunks) : f.chunks[i] \in Infected

(* It is rejected exactly if one of its chunks has the signature.  A       *)
(* rejection is never due to somebody else's chunk, a broken one or a      *)
(* failure.                                                                *)
RejectedHasThreat == phase = "rejected" => ChunkHasThreat(file)

VerdictFollowsChunks ==
  /\ RejectedHasThreat
  /\ phase = "done" => ~ChunkHasThreat(file)

(* And it does end, after finitely many faults.                            *)
ClientFinishes == <>Ended
=============================================================================
