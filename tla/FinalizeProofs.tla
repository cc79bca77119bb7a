---------------------------- MODULE FinalizeProofs ----------------------------
(***************************************************************************)
(* What the critical sections of finalize and abort achieve, for any       *)
(* number of requests, sessions and chunks, as long as locks do not lapse. *)
(* What is sent to S3 was scanned: while the chunks are read they can only *)
(* disappear, since those who would store one have to be inside too.  What *)
(* is cleaned up stays away for the same reason.  And, lapses or not, each *)
(* multipart upload is closed.                                             *)
(***************************************************************************)
EXTENDS SessionLockProofs, EntityProofs

(* The labels between which finalize reads the chunks.                     *)
Reading == {"scan", "s3_initiate", "s3_part"}

CleanSeq(p) == \A i \in 1 .. Len(p) : p[i] \notin Infected

(* What a finalize knows of the chunks c stored at each label: those it    *)
(* scanned are unchanged or gone, and once it has scanned all there is no  *)
(* further one.                                                            *)
Reads(q, c) ==
  /\ q.pc = "final_lock" => q.seen = <<>>
  /\ CleanSeq(q.seen)
  /\ IsPrefixOf(q.parts, q.seen)
  /\ q.pc \in Reading =>
       \A i \in 1 .. Len(q.seen) :
         i - 1 \in Index => c[q.on][i - 1] \in {None, q.seen[i]}
  /\ q.pc \in {"s3_initiate", "s3_part"} /\ Len(q.seen) \in Index =>
       c[q.on][Len(q.seen)] = None \/ Size[c[q.on][Len(q.seen)]] = 0

ScanInv == \A r \in Req : Reads(req[r], chunk)

(* Chunks of s disappear at most.                                          *)
NoneAppears(s) == \A i \in Index : chunk'[s][i] \in {None, chunk[s][i]}

-----------------------------------------------------------------------------
(* What a request knows stays true while chunks disappear at most.         *)
LEMMA ReadsKept ==
  ASSUME NEW q \in Requests, Reads(q, chunk), q.pc \in Reading => NoneAppears(q.on)
  PROVE  Reads(q, chunk')
<1>1. CASE q.pc \notin Reading
  BY <1>1 DEF Reads, Reading
<1>2. CASE q.pc \in Reading
  <2>1. \A i \in Index : chunk'[q.on][i] \in {None, chunk[q.on][i]}
    BY <1>2 DEF NoneAppears
  <2>2. \A i \in 1 .. Len(q.seen) :
          i - 1 \in Index => chunk'[q.on][i - 1] \in {None, q.seen[i]}
    BY <1>2, <2>1 DEF Reads
  <2>3. q.pc \in {"s3_initiate", "s3_part"} /\ Len(q.seen) \in Index =>
          \/ chunk'[q.on][Len(q.seen)] = None
          \/ Size[chunk'[q.on][Len(q.seen)]] = 0
    BY <2>1 DEF Reads
  <2> QED BY <2>2, <2>3 DEF Reads
<1> QED BY <1>1, <1>2

(* A step of one request keeps the invariant if its own record does.       *)
LEMMA OneReads ==
  ASSUME TypeInv, ScanInv, NEW r \in Req, NEW q, Becomes(r, q), Reads(q, chunk'),
         \A x \in Req \ {r} : req[x].pc \in Reading => NoneAppears(req[x].on)
  PROVE  ScanInv'
<1>1. ReqOK
  BY DEF TypeInv
<1>2. ASSUME NEW x \in Req \ {r} PROVE Reads(req'[x], chunk')
  <2>1. req'[x] = req[x] /\ req[x] \in Requests
    BY <1>1 DEF Becomes, ReqOK
  <2>2. Reads(req[x], chunk)
    BY DEF ScanInv
  <2> QED BY <2>1, <2>2, ReadsKept
<1>3. req'[r] = q
  BY <1>1 DEF Becomes, ReqOK
<1>4. \A x \in Req : Reads(req'[x], chunk')
  BY <1>2, <1>3
<1> QED BY <1>4 DEF ScanInv, Reads

-----------------------------------------------------------------------------
(* Records.  A request ends, or is at its beginning.                       *)
Fresh(r) ==
  \E q : Becomes(r, q) /\ q.pc \notin Reading /\ q.seen = <<>> /\ q.parts = <<>>

(* The handlers end a request, or begin one, in these ways.               *)
LEMMA FreshForms ==
  ASSUME NEW r \in Req,
         \/ \E code : Answer(r, code)
         \/ Becomes(r, IdleRequest)
         \/ \E label \in {"reply"} \cup PcBeforeLock :
              \E op, s, u, a, code : Becomes(r, NewRequest(label, op, s, u, a, code))
  PROVE  Fresh(r)
<1>1. \A label, op, s, u, a, code :
        LET q == NewRequest(label, op, s, u, a, code)
        IN  q.pc = label /\ q.seen = <<>> /\ q.parts = <<>>
  BY DEF NewRequest
<1>2. \A label \in {"idle", "reply"} \cup PcBeforeLock : label \notin Reading
  BY DEF PcBeforeLock, Reading
<1> QED BY <1>1, <1>2 DEF Fresh, Answer, IdleRequest

(* It goes on with the chunks it has read.                                 *)
Keeps(r, label) ==
  \E q : /\ Becomes(r, q) /\ q.pc = label /\ q.on = req[r].on
         /\ q.seen = req[r].seen /\ q.parts = req[r].parts

(* ... and go on in these.                                                *)
LEMMA KeepsForms ==
  ASSUME ReqOK, NEW r \in Req
  PROVE  /\ \A label : Go(r, label) => Keeps(r, label)
         /\ \A label, u : GoWith(r, label, u) => Keeps(r, label)
         /\ \A code : Leave(r, code) => Keeps(r, "release")
         /\ \A code, u : Conclude(r, code, u) => Keeps(r, "purge_scan")
         /\ \A p : Becomes(r, [req[r] EXCEPT !.pc = "purge_delete", !.found = p])
                     => Keeps(r, "purge_delete")
         /\ \A p : Becomes(r, [req[r] EXCEPT !.pc = "s3_part", !.upload = p])
                     => Keeps(r, "s3_part")
<1>1. req[r] \in Requests
  BY DEF ReqOK
<1>2. ASSUME NEW label, Go(r, label) PROVE Keeps(r, label)
  <2> DEFINE q == [req[r] EXCEPT !.pc = label]
  <2>1. q.pc = label /\ q.on = req[r].on /\ q.seen = req[r].seen
        /\ q.parts = req[r].parts
    BY <1>1 DEF Requests
  <2> QED BY <1>2, <2>1 DEF Go, Keeps
<1>3. ASSUME NEW label, NEW u, GoWith(r, label, u) PROVE Keeps(r, label)
  <2> DEFINE q == [req[r] EXCEPT !.pc = label, !.snap = u]
  <2>1. q.pc = label /\ q.on = req[r].on /\ q.seen = req[r].seen
        /\ q.parts = req[r].parts
    BY <1>1 DEF Requests
  <2> QED BY <1>3, <2>1 DEF GoWith, Keeps
<1>4. ASSUME NEW code, Leave(r, code) PROVE Keeps(r, "release")
  <2> DEFINE q == [req[r] EXCEPT !.pc = "release", !.status = code]
  <2>1. q.pc = "release" /\ q.on = req[r].on /\ q.seen = req[r].seen
        /\ q.parts = req[r].parts
    BY <1>1 DEF Requests
  <2> QED BY <1>4, <2>1 DEF Leave, Keeps
<1>5. ASSUME NEW code, NEW u, Conclude(r, code, u) PROVE Keeps(r, "purge_scan")
  <2> DEFINE q == [req[r] EXCEPT !.pc = "purge_scan", !.status = code, !.snap = u]
  <2>1. q.pc = "purge_scan" /\ q.on = req[r].on /\ q.seen = req[r].seen
        /\ q.parts = req[r].parts
    BY <1>1 DEF Requests
  <2> QED BY <1>5, <2>1 DEF Conclude, Keeps
<1>6. ASSUME NEW p, Becomes(r, [req[r] EXCEPT !.pc = "purge_delete", !.found = p])
      PROVE  Keeps(r, "purge_delete")
  <2> DEFINE q == [req[r] EXCEPT !.pc = "purge_delete", !.found = p]
  <2>1. q.pc = "purge_delete" /\ q.on = req[r].on /\ q.seen = req[r].seen
        /\ q.parts = req[r].parts
    BY <1>1 DEF Requests
  <2> QED BY <1>6, <2>1 DEF Keeps
<1>7. ASSUME NEW p, Becomes(r, [req[r] EXCEPT !.pc = "s3_part", !.upload = p])
      PROVE  Keeps(r, "s3_part")
  <2> DEFINE q == [req[r] EXCEPT !.pc = "s3_part", !.upload = p]
  <2>1. q.pc = "s3_part" /\ q.on = req[r].on /\ q.seen = req[r].seen
        /\ q.parts = req[r].parts
    BY <1>1 DEF Requests
  <2> QED BY <1>7, <2>1 DEF Keeps
<1> QED BY <1>2, <1>3, <1>4, <1>5, <1>6, <1>7

(* Both leave nothing to know about the chunks stored, unless it goes to   *)
(* a label at which it reads them.                                         *)
LEMMA PlainReads ==
  ASSUME TypeInv, ScanInv, NEW r \in Req,
         Fresh(r) \/ \E label : /\ label \notin Reading \cup {"final_lock"}
                                /\ Keeps(r, label),
         \A x \in Req \ {r} : req[x].pc \in Reading => NoneAppears(req[x].on)
  PROVE  ScanInv'
<1>1. CASE Fresh(r)
  <2>1. PICK q : /\ Becomes(r, q) /\ q.pc \notin Reading
                 /\ q.seen = <<>> /\ q.parts = <<>>
    BY <1>1 DEF Fresh
  <2>2. Reads(q, chunk')
    BY <2>1 DEF Reads, Reading, CleanSeq, IsPrefixOf
  <2> QED BY <2>1, <2>2, OneReads
<1>2. ASSUME NEW label, label \notin Reading \cup {"final_lock"}, Keeps(r, label)
      PROVE  ScanInv'
  <2>1. PICK q : /\ Becomes(r, q) /\ q.pc = label /\ q.on = req[r].on
                 /\ q.seen = req[r].seen /\ q.parts = req[r].parts
    BY <1>2 DEF Keeps
  <2>2. Reads(req[r], chunk)
    BY DEF ScanInv
  <2>3. Reads(q, chunk')
    BY <1>2, <2>1, <2>2 DEF Reads, Reading
  <2> QED BY <2>1, <2>3, OneReads
<1> QED BY <1>1, <1>2

-----------------------------------------------------------------------------
(* Steps.  Most neither scan nor send.                                     *)
LEMMA PlainSteps ==
  ASSUME ReqOK, NEW r \in Req,
         \/ Arrive(r) \/ InitiateSave(r) \/ Respond(r) \/ PatchStep(r)
         \/ AbortLock(r) \/ CleanUpStep(r) \/ MalwareSave(r) \/ S3Complete(r)
         \/ S3Abort(r) \/ FailSave(r) \/ Register(r) \/ Publish(r) \/ Fault(r)
  PROVE  Fresh(r) \/ \E label : /\ label \notin Reading \cup {"final_lock"}
                                /\ Keeps(r, label)
<1> DEFINE Plain == Fresh(r) \/ \E label : /\ label \notin Reading \cup {"final_lock"}
                                           /\ Keeps(r, label)
<1>1. ASSUME \E label \in {"patch_store", "drop", "s3_complete", "register",
                           "s3_abort", "fail_save", "publish"} : Go(r, label)
      PROVE  Plain
  BY <1>1, KeepsForms DEF Reading
<1>2. ASSUME \E label \in {"patch_save", "mal_save", "fail_save"} :
               \E u : GoWith(r, label, u)
      PROVE  Plain
  BY <1>2, KeepsForms DEF Reading
<1>3. ASSUME NEW code, Leave(r, code) PROVE Plain
  BY <1>3, KeepsForms DEF Reading
<1>4. ASSUME NEW code, NEW u, Conclude(r, code, u) PROVE Plain
  BY <1>4, KeepsForms DEF Reading
<1>5. CASE Arrive(r)
  BY <1>5, FreshForms
     DEF Arrive, InitiateCheck, PatchGet, QueryGet, AbortGet, FinalizeGet,
         Receive, Refuse, PcBeforeLock
<1>6. CASE InitiateSave(r) \/ Respond(r) \/ Release(r) \/ Crash(r)
  BY <1>6, FreshForms DEF InitiateSave, Respond, Release, Crash
<1>7. CASE PatchStep(r)
  BY <1>1, <1>2, <1>3, <1>7, FreshForms DEF PatchStep, PatchLock, PatchStore, PatchSave
<1>8. CASE AbortLock(r)
  BY <1>4, <1>8, FreshForms DEF AbortLock
<1>9. CASE PurgeScan(r)
  <2>1. Keeps(r, "purge_delete")
    BY <1>9, KeepsForms DEF PurgeScan
  <2> QED BY <2>1 DEF Reading
<1>10. CASE PurgeDelete(r) \/ Register(r) \/ S3Complete(r)
  BY <1>1, <1>10 DEF PurgeDelete, Register, S3Complete
<1>11. CASE Drop(r)
  <2>1. Keeps(r, "release")
    BY <1>11, KeepsForms DEF Drop
  <2> QED BY <2>1 DEF Reading
<1>12. CASE MalwareSave(r) \/ Publish(r)
  BY <1>4, <1>12 DEF MalwareSave, Publish
<1>13. CASE S3Abort(r) \/ S3AbortFails(r)
  BY <1>2, <1>13 DEF S3Abort, S3AbortFails
<1>14. CASE FailSave(r) \/ PublishRaises(r)
  BY <1>3, <1>14 DEF FailSave, PublishRaises
<1>15. CASE CutShort(r)
  BY <1>3, <1>15, FreshForms DEF CutShort
<1>16. CASE S3Raises(r)
  BY <1>1, <1>3, <1>16 DEF S3Raises
<1>17. CASE Fault(r)
  BY <1>6, <1>13, <1>14, <1>15, <1>16, <1>17 DEF Fault, RedisRaises, Cancel
<1> QED BY <1>5, <1>6, <1>7, <1>8, <1>9, <1>10, <1>11, <1>12, <1>13, <1>14, <1>17
        DEF CleanUpStep

(* While a request is inside the critical section of a session, no other   *)
(* one stores a chunk: it would be inside too.                             *)
LEMMA OthersDoNotStore ==
  ASSUME TypeInv, MutualExclusion, NEW r \in Req,
         Arrive(r) \/ Handle(r) \/ Fault(r),
         NEW x \in Req \ {r}, req[x].pc \in PcCritical
  PROVE  NoneAppears(req[x].on)
<1>1. ReqOK /\ chunk \in [Session -> [Index -> {None} \cup Payload]]
  BY DEF TypeInv, StoreOK
<1>2. req[x].pc \in PcCritical
  OBVIOUS
<1>3. req[x].on \in Session
  BY <1>1, <1>2, CriticalLabels, InsideFacts
<1>4. CASE PatchStore(r)
  <2>1. req[r].pc \in PcCritical
    BY <1>4, CriticalLabels DEF PatchStore, At
  <2>2. req[r].on \in Session
    BY <1>1, <2>1, CriticalLabels, InsideFacts
  <2>3. req[r].on # req[x].on
    BY <1>2, <1>3, <2>1 DEF MutualExclusion, Holds
  <2>4. chunk'[req[x].on] = chunk[req[x].on]
    BY <1>1, <1>3, <1>4, <2>3 DEF PatchStore, SaveChunk
  <2> QED BY <2>4 DEF NoneAppears
<1>5. CASE PurgeDelete(r)
  <2> DEFINE s == req[r].on
  <2>1. s \in Session
    BY <1>1, <1>5, CriticalLabels, InsideFacts DEF PurgeDelete, At
  <2>2. chunk' = [chunk EXCEPT ![s] =
                    [i \in Index |-> IF i \in req[r].found THEN None ELSE @[i]]]
    BY <1>5 DEF PurgeDelete, DeleteChunks
  <2> QED BY <1>1, <1>3, <2>1, <2>2 DEF NoneAppears
<1>6. CASE chunk' = chunk
  BY <1>6 DEF NoneAppears
<1>7. CASE Arrive(r)
  BY <1>6, <1>7
     DEF Arrive, InitiateCheck, PatchGet, QueryGet, AbortGet, FinalizeGet, redisVars
<1>8. CASE Fault(r)
  BY <1>6, <1>8
     DEF Fault, Crash, RedisRaises, Cancel, CutShort, S3Raises, S3AbortFails,
         PublishRaises, redisVars
<1>9. CASE Handle(r)
  BY <1>4, <1>5, <1>6, <1>9
     DEF Handle, Work, InitiateSave, PatchStep, PatchLock, PatchSave, AbortLock,
         FinalizeStep, FinalizeLock, Scan, MalwareSave, S3Initiate, S3Part,
         S3Complete, S3Abort, FailSave, Register, Publish, CleanUpStep,
         PurgeScan, Drop, Release, Respond, redisVars
<1> QED BY <1>7, <1>8, <1>9

(* In particular none while a finalize reads them.                         *)
LEMMA ReadersUndisturbed ==
  ASSUME TypeInv, MutualExclusion, NEW r \in Req, Arrive(r) \/ Handle(r) \/ Fault(r)
  PROVE  \A x \in Req \ {r} : req[x].pc \in Reading => NoneAppears(req[x].on)
<1>1. Reading \subseteq PcCritical
  BY CriticalLabels DEF Reading
<1> QED BY <1>1, OthersDoNotStore

(* Finalize begins to scan.                                                *)
LEMMA FinalizeLockReads ==
  ASSUME TypeInv, ScanInv, MutualExclusion, NEW r \in Req, FinalizeLock(r)
  PROVE  ScanInv'
<1>1. ReqOK
  BY DEF TypeInv
<1>2. \A x \in Req \ {r} : req[x].pc \in Reading => NoneAppears(req[x].on)
  BY ReadersUndisturbed DEF Handle, Work, FinalizeStep
<1>3. CASE \E code : Answer(r, code)
  <2>1. Fresh(r)
    BY <1>3, FreshForms
  <2> QED BY <1>2, <2>1, PlainReads
<1>4. CASE Go(r, "scan")
  <2>0. Keeps(r, "scan")
    BY <1>1, <1>4, KeepsForms
  <2>1. PICK q : /\ Becomes(r, q) /\ q.pc = "scan" /\ q.on = req[r].on
                 /\ q.seen = req[r].seen /\ q.parts = req[r].parts
    BY <2>0 DEF Keeps
  <2>2. Reads(req[r], chunk) /\ req[r].pc = "final_lock"
    BY DEF ScanInv, FinalizeLock, At
  <2>3. Reads(q, chunk')
    BY <2>1, <2>2 DEF Reads, Reading
  <2> QED BY <1>2, <2>1, <2>3, OneReads
<1> QED BY <1>3, <1>4 DEF FinalizeLock

(* It scans a chunk, or finds that there is none left.                     *)
LEMMA ScanReads ==
  ASSUME TypeInv, ScanInv, MutualExclusion, NEW r \in Req, Scan(r)
  PROVE  ScanInv'
<1> DEFINE s == req[r].on
           seen == req[r].seen
           p == chunk[s][Len(seen)]
<1>1. ReqOK /\ chunk \in [Session -> [Index -> {None} \cup Payload]]
  BY DEF TypeInv, StoreOK
<1>2. /\ req[r].pc = "scan" /\ Reads(req[r], chunk) /\ chunk' = chunk
      /\ req[r] \in Requests
  BY <1>1 DEF ScanInv, Scan, At, redisVars, ReqOK
<1>3. s \in Session /\ seen \in Seq(Payload) /\ req[r].parts \in Seq(Payload)
  BY <1>1, <1>2, PcTypes, InsideFacts
<1>4. \A x \in Req \ {r} : req[x].pc \in Reading => NoneAppears(req[x].on)
  BY ReadersUndisturbed DEF Handle, Work, FinalizeStep
<1>5. CASE ~HasChunk(s, Len(seen)) /\ Go(r, "s3_initiate")
  <2>0. Keeps(r, "s3_initiate")
    BY <1>1, <1>5, KeepsForms
  <2>1. PICK q : /\ Becomes(r, q) /\ q.pc = "s3_initiate" /\ q.on = s
                 /\ q.seen = seen /\ q.parts = req[r].parts
    BY <2>0 DEF Keeps
  <2>2. Len(seen) \in Index => p = None \/ Size[p] = 0
    <3>1. p \in Payload => Size[p] \in Nat
      BY StateAssumption
    <3>2. Len(seen) \in Index => p \in {None} \cup Payload
      BY <1>1, <1>3
    <3> QED BY <1>5, <3>1, <3>2 DEF HasChunk
  <2>3. Reads(q, chunk')
    BY <1>2, <2>1, <2>2 DEF Reads, Reading
  <2> QED BY <1>4, <2>1, <2>3, OneReads
<1>6. CASE \E u : GoWith(r, "mal_save", u)
  <2>1. Keeps(r, "mal_save")
    BY <1>1, <1>6, KeepsForms
  <2> QED BY <1>4, <2>1, PlainReads DEF Reading
<1>7. CASE /\ HasChunk(s, Len(seen)) /\ p \notin Infected
           /\ Becomes(r, [req[r] EXCEPT !.seen = Append(@, p)])
  <2> DEFINE more == Append(seen, p)
             q == [req[r] EXCEPT !.seen = more]
  <2>1. /\ q.pc = "scan" /\ q.on = s /\ q.seen = more /\ q.parts = req[r].parts
    BY <1>2 DEF Requests
  <2>2. Becomes(r, q)
    BY <1>7
  <2> HIDE DEF q
  <2>3. p \in Payload
    BY <1>1, <1>3, <1>7 DEF HasChunk
  <2>4. /\ Len(more) = Len(seen) + 1 /\ more[Len(seen) + 1] = p
        /\ \A i \in 1 .. Len(seen) : more[i] = seen[i]
        /\ Len(seen) \in Nat /\ Len(req[r].parts) \in Nat
    BY <1>3, <2>3
  <2> HIDE DEF more
  <2>5. CleanSeq(more)
    BY <1>2, <1>7, <2>4 DEF Reads, CleanSeq
  <2>6. IsPrefixOf(req[r].parts, more)
    BY <1>2, <2>4 DEF Reads, IsPrefixOf
  <2>7. ASSUME NEW i \in 1 .. Len(more), i - 1 \in Index
        PROVE  chunk[s][i - 1] \in {None, more[i]}
    <3>1. CASE i \in 1 .. Len(seen)
      BY <1>2, <2>4, <2>7, <3>1 DEF Reads, Reading
    <3>2. CASE i = Len(seen) + 1
      <4>1. i - 1 = Len(seen)
        BY <2>4, <3>2
      <4> QED BY <2>4, <3>2, <4>1
    <3> QED BY <2>4, <3>1, <3>2
  <2>8. Reads(q, chunk')
    BY <1>2, <2>1, <2>5, <2>6, <2>7 DEF Reads
  <2> QED BY <1>4, <2>2, <2>8, OneReads
<1> QED BY <1>5, <1>6, <1>7 DEF Scan, ThreatIn

(* It opens the multipart upload.                                          *)
LEMMA S3InitiateReads ==
  ASSUME TypeInv, ScanInv, MutualExclusion, NEW r \in Req, S3Initiate(r)
  PROVE  ScanInv'
<1>1. Keeps(r, "s3_part")
  BY KeepsForms DEF S3Initiate, TypeInv
<1>2. Reads(req[r], chunk) /\ req[r].pc = "s3_initiate" /\ chunk' = chunk
  BY DEF ScanInv, S3Initiate, At, redisVars
<1>3. PICK q : /\ Becomes(r, q) /\ q.pc = "s3_part" /\ q.on = req[r].on
               /\ q.seen = req[r].seen /\ q.parts = req[r].parts
  BY <1>1 DEF Keeps
<1>4. Reads(q, chunk')
  BY <1>2, <1>3 DEF Reads, Reading
<1>5. \A x \in Req \ {r} : req[x].pc \in Reading => NoneAppears(req[x].on)
  BY ReadersUndisturbed DEF Handle, Work, FinalizeStep
<1> QED BY <1>3, <1>4, <1>5, OneReads

(* It sends a chunk, which is one it scanned, or is done.                  *)
LEMMA S3PartReads ==
  ASSUME TypeInv, ScanInv, MutualExclusion, NEW r \in Req, S3Part(r)
  PROVE  ScanInv'
<1> DEFINE s == req[r].on
           seen == req[r].seen
           parts == req[r].parts
           p == chunk[s][Len(parts)]
<1>1. ReqOK /\ chunk \in [Session -> [Index -> {None} \cup Payload]]
  BY DEF TypeInv, StoreOK
<1>2. /\ req[r].pc = "s3_part" /\ Reads(req[r], chunk) /\ chunk' = chunk
      /\ req[r] \in Requests
  BY <1>1 DEF ScanInv, S3Part, At, redisVars, ReqOK
<1>3. s \in Session /\ seen \in Seq(Payload) /\ parts \in Seq(Payload)
  BY <1>1, <1>2, PcTypes, InsideFacts
<1>4. \A x \in Req \ {r} : req[x].pc \in Reading => NoneAppears(req[x].on)
  BY ReadersUndisturbed DEF Handle, Work, FinalizeStep
<1>5. CASE Go(r, "s3_complete")
  <2>1. Keeps(r, "s3_complete")
    BY <1>1, <1>5, KeepsForms
  <2> QED BY <1>4, <2>1, PlainReads DEF Reading
<1>6. CASE HasChunk(s, Len(parts)) /\ UploadPart(r, p)
  <2> DEFINE more == Append(parts, p)
             q == [req[r] EXCEPT !.parts = more]
  <2>1. /\ q.pc = "s3_part" /\ q.on = s /\ q.seen = seen /\ q.parts = more
    BY <1>2 DEF Requests
  <2>2. Becomes(r, q)
    BY <1>6 DEF UploadPart
  <2> HIDE DEF q
  <2>3. p \in Payload /\ p # None /\ Size[p] > 0 /\ Len(parts) \in Index
    BY <1>1, <1>3, <1>6 DEF HasChunk
  <2>4. /\ Len(more) = Len(parts) + 1 /\ more[Len(parts) + 1] = p
        /\ \A i \in 1 .. Len(parts) : more[i] = parts[i]
        /\ Len(parts) \in Nat /\ Len(seen) \in Nat
    BY <1>3, <2>3
  <2> HIDE DEF more
  <2>5. Len(parts) <= Len(seen) /\ \A i \in 1 .. Len(parts) : parts[i] = seen[i]
    BY <1>2 DEF Reads, IsPrefixOf
  <2>6. Len(parts) # Len(seen)
    <3>1. SUFFICES ASSUME Len(parts) = Len(seen) PROVE FALSE
      OBVIOUS
    <3>2. p = None \/ Size[p] = 0
      BY <1>2, <2>3, <3>1 DEF Reads
    <3>3. ~(Size[p] > 0 /\ Size[p] = 0)
      OBVIOUS
    <3> QED BY <2>3, <3>2, <3>3
  <2>7. seen[Len(parts) + 1] = p
    <3> DEFINE i == Len(parts) + 1
    <3>1. i \in 1 .. Len(seen) /\ i - 1 = Len(parts)
      BY <2>4, <2>5, <2>6
    <3>2. chunk[s][i - 1] \in {None, seen[i]}
      BY <1>2, <2>3, <3>1 DEF Reads, Reading
    <3> QED BY <2>3, <3>1, <3>2
  <2>8. IsPrefixOf(more, seen)
    <3>1. Len(more) <= Len(seen)
      BY <2>4, <2>5, <2>6
    <3>2. \A i \in 1 .. Len(more) : more[i] = seen[i]
      BY <2>4, <2>5, <2>7
    <3> QED BY <3>1, <3>2 DEF IsPrefixOf
  <2>9. Reads(q, chunk')
    BY <1>2, <2>1, <2>8 DEF Reads, Reading
  <2> QED BY <1>4, <2>2, <2>9, OneReads
<1> QED BY <1>5, <1>6 DEF S3Part

(* Keys expire.                                                            *)
LEMMA ExpiryReads ==
  ASSUME TypeInv, ScanInv, NEW s \in Session, LockExpires(s) \/ KeyExpires(s)
  PROVE  ScanInv'
<1>1. ReqOK /\ chunk \in [Session -> [Index -> {None} \cup Payload]]
  BY DEF TypeInv, StoreOK
<1>2. req' = req
  BY DEF LockExpires, KeyExpires
<1>3. ASSUME NEW x \in Req, req[x].pc \in Reading
      PROVE  NoneAppears(req[x].on)
  <2>1. req[x].on \in Session
    BY <1>1, <1>3, PcTypes, InsideFacts DEF Reading
  <2>2. CASE chunk' = chunk
    BY <2>2 DEF NoneAppears
  <2>3. ASSUME NEW found,
               chunk' = [chunk EXCEPT ![s] =
                           [i \in Index |-> IF i \in found THEN None ELSE @[i]]]
        PROVE  NoneAppears(req[x].on)
    BY <1>1, <2>1, <2>3 DEF NoneAppears
  <2> QED BY <2>2, <2>3 DEF LockExpires, KeyExpires, DeleteChunks
<1>4. ASSUME NEW x \in Req PROVE Reads(req[x], chunk')
  <2>1. Reads(req[x], chunk) /\ req[x] \in Requests
    BY <1>1 DEF ScanInv, ReqOK
  <2> QED BY <1>3, <2>1, ReadsKept
<1> QED BY <1>2, <1>4 DEF ScanInv, Reads

(* So every step keeps the invariant.                                      *)
LEMMA ScanStep ==
  TypeInv /\ MutualExclusion /\ ScanInv /\ [Next]_vars => ScanInv'
<1> SUFFICES ASSUME TypeInv, MutualExclusion, ScanInv, [Next]_vars
             PROVE  ScanInv'
  OBVIOUS
<1>1. ASSUME NEW r \in Req, Arrive(r) \/ Handle(r) \/ Fault(r) PROVE ScanInv'
  <2>1. CASE FinalizeLock(r) \/ Scan(r) \/ S3Initiate(r) \/ S3Part(r)
    BY <2>1, FinalizeLockReads, ScanReads, S3InitiateReads, S3PartReads
  <2>2. CASE ~(FinalizeLock(r) \/ Scan(r) \/ S3Initiate(r) \/ S3Part(r))
    <3>1. Fresh(r) \/ \E label : /\ label \notin Reading \cup {"final_lock"}
                                 /\ Keeps(r, label)
      BY <1>1, <2>2, PlainSteps DEF TypeInv, Handle, Work, FinalizeStep
    <3>2. \A x \in Req \ {r} : req[x].pc \in Reading => NoneAppears(req[x].on)
      BY <1>1, ReadersUndisturbed
    <3> QED BY <3>1, <3>2, PlainReads
  <2> QED BY <2>1, <2>2
<1>2. ASSUME NEW s \in Session, LockExpires(s) \/ KeyExpires(s) PROVE ScanInv'
  BY <1>2, ExpiryReads
<1>3. CASE UNCHANGED vars
  BY <1>3 DEF vars, redisVars, ScanInv, Reads
<1> QED BY <1>1, <1>2, <1>3 DEF Next

(* At first nothing is read.                                               *)
LEMMA ScanInit == Init => ScanInv
BY DEF Init, InitState, IdleRequest, NewRequest, ScanInv, Reads, Reading,
       CleanSeq, IsPrefixOf

-----------------------------------------------------------------------------
(* An object is assembled from the parts of a finalize.                    *)
LEMMA CleanStep ==
  ASSUME TypeInv, ScanInv, ObjectsScannedClean, [Next]_vars
  PROVE  ObjectsScannedClean'
<1>1. object \in [Key -> {None} \cup Seq(Payload)]
  BY DEF TypeInv, StoreOK
<1>2. CASE object' = object
  BY <1>2 DEF ObjectsScannedClean
<1>3. ASSUME NEW r \in Req, req[r].pc \in PcInside,
             object' = [object EXCEPT ![ObjectKey(req[r].snap.decl)] = req[r].parts]
      PROVE  ObjectsScannedClean'
  <2>1. req[r].parts \in Seq(Payload) /\ req[r].seen \in Seq(Payload)
    BY <1>3, InsideFacts DEF TypeInv
  <2>2. \A i \in 1 .. Len(req[r].parts) : req[r].parts[i] \notin Infected
    BY <2>1 DEF ScanInv, Reads, CleanSeq, IsPrefixOf
  <2> QED BY <1>1, <1>3, <2>2 DEF ObjectsScannedClean
<1>4. ASSUME NEW r \in Req, S3Complete(r) \/ S3Raises(r)
      PROVE  \/ object' = object
             \/ /\ req[r].pc \in PcInside
                /\ object' = [object EXCEPT ![ObjectKey(req[r].snap.decl)] = req[r].parts]
  BY <1>4, PcTypes
     DEF S3Complete, S3Raises, At, CompleteMultipart, OpenMultipart, s3Vars
<1>5. ASSUME NEW r \in Req, Arrive(r) \/ Handle(r) \/ Fault(r),
             ~S3Complete(r), ~S3Raises(r)
      PROVE  object' = object
  BY <1>5
     DEF Arrive, InitiateCheck, PatchGet, QueryGet, AbortGet, FinalizeGet,
         Handle, Work, InitiateSave, PatchStep, PatchLock, PatchStore, PatchSave,
         AbortLock, FinalizeStep, FinalizeLock, Scan, MalwareSave, S3Initiate,
         S3Part, S3Abort, FailSave, Register, Publish, CleanUpStep, PurgeScan,
         PurgeDelete, Drop, Release, Respond, Fault, Crash, RedisRaises, Cancel,
         CutShort, S3AbortFails, PublishRaises, OpenMultipart, s3Vars
<1>6. ASSUME NEW s \in Session, LockExpires(s) \/ KeyExpires(s)
      PROVE  object' = object
  BY <1>6 DEF LockExpires, KeyExpires, s3Vars
<1>7. CASE UNCHANGED vars
  BY <1>2, <1>7 DEF vars, s3Vars
<1> QED BY <1>2, <1>3, <1>4, <1>5, <1>6, <1>7 DEF Next

(* What the two theorems need of every state.                              *)
FinalizeInv == TypeInv /\ LockInv /\ ScanInv /\ ObjectsScannedClean

(* They hold in every reachable state.                                     *)
LEMMA FinalizeInvariant ==
  ASSUME "lapse" \notin Faults
  PROVE  Spec => []FinalizeInv
<1>1. Init => FinalizeInv
  <2>1. Init => TypeInv /\ LockInv
    BY InitType, NobodyAtFirst DEF LockInv, HoldersHaveLock, MutualExclusion
  <2>2. Init => ObjectsScannedClean
    BY DEF Init, InitState, ObjectsScannedClean
  <2> QED BY <2>1, <2>2, ScanInit DEF FinalizeInv
<1>2. FinalizeInv /\ [Next]_vars => FinalizeInv'
  <2>1. TypeInv /\ LockInv /\ [Next]_vars => (TypeInv /\ LockInv)'
    BY TypeStep, EveryLockStep, LockInvKept DEF TypeInv, StoreOK
  <2> QED BY <2>1, ScanStep, CleanStep DEF FinalizeInv, LockInv
<1> QED BY <1>1, <1>2, PTL DEF Spec

(* The parts a finalize sends to S3 are the first of those it scanned: no  *)
(* interleaving of any number of requests, no expired chunk and no fault   *)
(* gets an unscanned chunk in between, while locks do not lapse.           *)
THEOREM UploadsWereScanned ==
  ASSUME "lapse" \notin Faults
  PROVE  Spec => []UploadedWasScanned
<1>1. FinalizeInv => UploadedWasScanned
  BY DEF FinalizeInv, ScanInv, Reads, UploadedWasScanned
<1> QED BY <1>1, FinalizeInvariant, PTL

(* No object in the bucket has a part with the signature, under the same   *)
(* condition.                                                              *)
THEOREM ObjectsAreClean ==
  ASSUME "lapse" \notin Faults
  PROVE  Spec => []ObjectsScannedClean
<1>1. FinalizeInv => ObjectsScannedClean
  BY DEF FinalizeInv
<1> QED BY <1>1, FinalizeInvariant, PTL

-----------------------------------------------------------------------------
(* Multipart uploads.  A request that sends parts owns the one it opened.  *)
Owns(q, id) == q.upload = id /\ q.pc \in PcS3

(* A step changes the record of its own request only.                      *)
LEMMA OthersStay ==
  ASSUME ReqOK, NEW r \in Req, Arrive(r) \/ Handle(r) \/ Fault(r)
  PROVE  \A x \in Req \ {r} : req'[x] = req[x]
<1>1. CASE FinalizeLock(r) \/ Scan(r) \/ S3Initiate(r) \/ S3Part(r)
  BY <1>1
     DEF ReqOK, FinalizeLock, Scan, S3Initiate, S3Part, UploadPart, Answer, Go,
         GoWith, Becomes
<1>2. CASE ~(FinalizeLock(r) \/ Scan(r) \/ S3Initiate(r) \/ S3Part(r))
  <2>1. Fresh(r) \/ \E label : Keeps(r, label)
    BY <1>2, PlainSteps DEF Handle, Work, FinalizeStep
  <2>2. \E q : Becomes(r, q)
    BY <2>1 DEF Fresh, Keeps
  <2> QED BY <2>2 DEF Becomes, ReqOK
<1> QED BY <1>1, <1>2

(* While no worker dies or stops and S3 answers, only finalize's own steps *)
(* change what is open, and the upload is closed before they go on.        *)
LEMMA S3LabelSteps ==
  ASSUME {"crash", "cancel", "s3"} \cap Faults = {}, NEW r \in Req,
         Arrive(r) \/ Handle(r) \/ Fault(r)
  PROVE  /\ req[r].pc \in PcS3 =>
              \/ S3Part(r) \/ S3Complete(r) \/ S3Abort(r)
              \/ Go(r, "s3_abort") /\ multipart' = multipart
         /\ req[r].pc \notin PcS3 => S3Initiate(r) \/ multipart' = multipart
<1>1. CASE Arrive(r)
  BY <1>1
     DEF Arrive, InitiateCheck, PatchGet, QueryGet, AbortGet, FinalizeGet, At,
         PcS3, s3Vars
<1>2. CASE Fault(r)
  BY <1>2
     DEF Fault, Crash, RedisRaises, Cancel, CutShort, S3Raises, S3AbortFails,
         PublishRaises, At, PcS3, PcRedis, PcBeforeLock, PcScan, PcCommitted, s3Vars
<1>3. CASE S3Initiate(r)
  BY <1>3 DEF S3Initiate, At, PcS3
<1>4. CASE S3Part(r) \/ S3Complete(r) \/ S3Abort(r)
  BY <1>4 DEF S3Part, S3Complete, S3Abort, At, PcS3
<1>5. CASE \/ InitiateSave(r) \/ PatchStep(r) \/ AbortLock(r) \/ CleanUpStep(r)
           \/ FinalizeLock(r) \/ Scan(r) \/ MalwareSave(r) \/ FailSave(r)
           \/ Register(r) \/ Publish(r) \/ Respond(r)
  BY <1>5
     DEF InitiateSave, PatchStep, PatchLock, PatchStore, PatchSave, AbortLock,
         FinalizeLock, Scan, MalwareSave, FailSave, Register, Publish,
         CleanUpStep, PurgeScan, PurgeDelete, Drop, Release, Respond, At, PcS3,
         s3Vars
<1> QED BY <1>1, <1>2, <1>3, <1>4, <1>5 DEF Handle, Work, FinalizeStep

(* What the request does with the one it owns.                             *)
LEMMA StrayStep ==
  ASSUME {"crash", "cancel", "s3"} \cap Faults = {},
         TypeInv, NoStrayMultipart, [Next]_vars
  PROVE  NoStrayMultipart'
<1>1. ReqOK
  BY DEF TypeInv
<1>2. SUFFICES ASSUME NEW id \in multipart' PROVE \E x \in Req : Owns(req'[x], id)
  BY DEF NoStrayMultipart, Owns
<1>3. id \in multipart => \E x \in Req : Owns(req[x], id)
  BY DEF NoStrayMultipart, Owns
<1>4. CASE multipart' = multipart /\ req' = req
  BY <1>3, <1>4
<1>5. ASSUME NEW r \in Req, Arrive(r) \/ Handle(r) \/ Fault(r)
      PROVE  \E x \in Req : Owns(req'[x], id)
  <2>1. \A x \in Req \ {r} : req'[x] = req[x]
    BY <1>1, <1>5, OthersStay
  <2>2. req[r] \in Requests
    BY <1>1 DEF ReqOK
  <2>3. CASE S3Initiate(r)
    <3>1. PICK new \in UploadId \ multipart :
            /\ multipart' = multipart \cup {new}
            /\ Becomes(r, [req[r] EXCEPT !.pc = "s3_part", !.upload = new])
      BY <2>3 DEF S3Initiate, OpenMultipart
    <3>2. Owns(req'[r], new)
      BY <1>1, <2>2, <3>1 DEF Becomes, ReqOK, Requests, Owns, PcS3
    <3>3. ~Owns(req[r], id)
      BY <2>3 DEF S3Initiate, At, Owns, PcS3
    <3> QED BY <1>3, <2>1, <3>1, <3>2, <3>3
  <2>4. CASE req[r].pc \notin PcS3 /\ multipart' = multipart
    BY <1>3, <2>1, <2>4 DEF Owns
  <2>5. CASE \/ S3Part(r)
             \/ Go(r, "s3_abort") /\ multipart' = multipart /\ req[r].pc \in PcS3
             \/ S3Complete(r) /\ Go(r, "s3_abort") /\ UNCHANGED s3Vars
    <3>1. multipart' = multipart /\ req[r].pc \in PcS3
      BY <2>5 DEF S3Part, S3Complete, At, PcS3, s3Vars
    <3>2. req'[r].upload = req[r].upload /\ req'[r].pc \in PcS3
      BY <1>1, <2>2, <2>5
         DEF S3Part, S3Complete, UploadPart, Go, Becomes, ReqOK, Requests, At, PcS3
    <3> QED BY <1>3, <2>1, <3>1, <3>2 DEF Owns
  <2>6. CASE multipart' = multipart \ {req[r].upload}
    <3>1. id \in multipart /\ ~Owns(req[r], id)
      BY <2>6 DEF Owns
    <3> QED BY <1>3, <2>1, <3>1
  <2> QED BY <1>5, <2>3, <2>4, <2>5, <2>6, S3LabelSteps
          DEF S3Complete, S3Abort, CompleteMultipart, AbortMultipart
<1>6. ASSUME NEW s \in Session, LockExpires(s) \/ KeyExpires(s)
      PROVE  \E x \in Req : Owns(req'[x], id)
  BY <1>4, <1>6 DEF LockExpires, KeyExpires, s3Vars
<1>7. CASE UNCHANGED vars
  BY <1>4, <1>7 DEF vars, s3Vars
<1> QED BY <1>5, <1>6, <1>7 DEF Next

(* Every failure inside the upload loop closes the multipart upload, while *)
(* no worker dies or stops and S3 answers; Redis and NATS may fail, locks  *)
(* lapse and keys expire.                                                  *)
THEOREM NoStrays ==
  ASSUME {"crash", "cancel", "s3"} \cap Faults = {}
  PROVE  Spec => []NoStrayMultipart
<1>1. Init => TypeInv /\ NoStrayMultipart
  BY InitType DEF Init, InitState, NoStrayMultipart
<1>2. TypeInv /\ NoStrayMultipart /\ [Next]_vars => (TypeInv /\ NoStrayMultipart)'
  BY TypeStep, StrayStep
<1> QED BY <1>1, <1>2, PTL DEF Spec

-----------------------------------------------------------------------------
(* Births.  An id is new while its session is about to be saved first: no  *)
(* other request is about it.                                              *)
Unborn(s) == session[s] = None

BirthInv ==
  /\ \A s \in Session \ issued :
       Unborn(s) /\ \A x \in Req : req[x].pc \in PcInside => req[x].on # s
  /\ \A r \in Req : req[r].pc = "init_save" =>
       /\ Unborn(req[r].on)
       /\ \A x \in Req \ {r} : req[x].pc \in PcInside => req[x].on # req[r].on

(* A request comes in about a session that is there or gets a new id, goes *)
(* on with the one it has, or is over.                                     *)
BirthStep(r, label, s) ==
  \/ label \notin PcInside /\ issued' = issued
  \/ /\ label \in PcInside \ {"init_save"} /\ issued' = issued
     /\ req[r].pc \in PcInside /\ s = req[r].on
  \/ /\ label \in PcInside \ {"init_save"} /\ issued' = issued
     /\ s \in Session /\ session[s] # None /\ session' = session
  \/ /\ label = "init_save" /\ s \in Session \ issued
     /\ issued' = issued \cup {s} /\ session' = session

(* Every step of a request is one of these.                                *)
LEMMA BirthMoves ==
  ASSUME ReqOK, NEW r \in Req, Arrive(r) \/ Handle(r) \/ Fault(r)
  PROVE  \E label, s, u : Moves(r, label, s, u) /\ BirthStep(r, label, s)
<1> DEFINE Fine == \E label, s, u : Moves(r, label, s, u) /\ BirthStep(r, label, s)
<1>1. ASSUME issued' = issued,
             \E label \in {"idle", "reply"} : \E s : \E u : Moves(r, label, s, u)
      PROVE  Fine
  BY <1>1, PcFacts DEF BirthStep
<1>2. ASSUME issued' = issued, req[r].pc \in PcInside,
             \E label \in PcCritical : \E u : Moves(r, label, req[r].on, u)
      PROVE  Fine
  <2>1. PcCritical \subseteq PcInside \ {"init_save"}
    BY CriticalLabels, PcTypes
  <2> QED BY <1>2, <2>1 DEF BirthStep
<1>3. CASE Arrive(r)
  <2>1. ASSUME NEW d \in Declarations, InitiateCheck(r, d) PROVE Fine
    <3>1. session' = session
      BY <2>1 DEF InitiateCheck, redisVars
    <3>2. \/ issued' = issued /\ \E s : \E u : Moves(r, "reply", s, u)
          \/ \E s \in Session \ issued :
               /\ issued' = issued \cup {s}
               /\ Moves(r, "init_save", s, NewUploadSession(d))
      BY <2>1, MoveForms DEF InitiateCheck
    <3> QED BY <1>1, <3>1, <3>2 DEF BirthStep
  <2>2. ASSUME NEW s \in Session, issued' = issued, session' = session,
               session[s] # None, NEW label \in PcBeforeLock \ {"init_save"},
               NEW op, NEW a, Receive(r, op, s, a, label)
        PROVE  Fine
    <3>1. Moves(r, label, s, session[s])
      BY <2>2, MoveForms DEF Receive
    <3>2. label \in PcInside \ {"init_save"}
      BY <2>2 DEF PcInside
    <3> QED BY <2>2, <3>1, <3>2 DEF BirthStep
  <2>3. ASSUME NEW s, issued' = issued,
               \/ \E op, code : Refuse(r, op, s, code)
               \/ \E op, code : Becomes(r, NewRequest("reply", op, s, session[s], None, code))
        PROVE  Fine
    BY <1>1, <2>3, MoveForms DEF Refuse
  <2>4. ASSUME NEW s \in Session,
               \/ \E a : PatchGet(r, s, a)
               \/ QueryGet(r, s) \/ AbortGet(r, s) \/ FinalizeGet(r, s)
        PROVE  Fine
    BY <2>2, <2>3, <2>4
       DEF PatchGet, QueryGet, AbortGet, FinalizeGet, histVars, redisVars, PcBeforeLock
  <2> QED BY <1>3, <2>1, <2>4 DEF Arrive
<1>4. CASE Respond(r) \/ Crash(r)
  <2>1. Moves(r, "idle", None, None) /\ issued' = issued
    BY <1>4, MoveForms DEF Respond, Crash, IdleRequest, histVars
  <2> QED BY <1>1, <2>1
<1>5. ASSUME issued' = issued, \E code : Answer(r, code) PROVE Fine
  BY <1>1, <1>5, MoveForms DEF Carries
<1>6. ASSUME issued' = issued, req[r].pc \in PcInside,
             \/ \E label \in PcCritical : Go(r, label)
             \/ \E label \in PcCritical : \E u : GoWith(r, label, u)
             \/ \E code : Leave(r, code)
             \/ \E code : \E u : Conclude(r, code, u)
      PROVE  Fine
  <2>1. "release" \in PcCritical /\ "purge_scan" \in PcCritical
    BY CriticalLabels
  <2> QED BY <1>2, <1>6, <2>1, MoveForms DEF Carries
<1>7. CASE InitiateSave(r) \/ Release(r)
  BY <1>5, <1>7 DEF InitiateSave, Release, histVars
<1>8. CASE PatchStep(r) \/ AbortLock(r) \/ FinalizeLock(r)
  BY <1>5, <1>6, <1>8, CriticalLabels, PcTypes
     DEF PatchStep, PatchLock, PatchStore, PatchSave, AbortLock, FinalizeLock, At,
         histVars
<1>9. CASE PurgeScan(r) \/ Scan(r) \/ S3Initiate(r) \/ S3Part(r)
  <2>1. req[r].pc \in PcInside /\ issued' = issued
    BY <1>9, PcTypes DEF PurgeScan, Scan, S3Initiate, S3Part, At, histVars
  <2>2. \E label \in {"purge_delete", "s3_part", "s3_initiate", "scan", "mal_save",
                      "s3_complete"} : \E u : Moves(r, label, req[r].on, u)
    BY <1>9, CollectForms DEF Carries
  <2> QED BY <1>2, <2>1, <2>2, CriticalLabels
<1>10. CASE \/ PurgeDelete(r) \/ Drop(r) \/ MalwareSave(r) \/ S3Complete(r)
            \/ S3Abort(r) \/ FailSave(r) \/ Register(r) \/ Publish(r)
  BY <1>6, <1>10, CriticalLabels, PcTypes
     DEF PurgeDelete, Drop, MalwareSave, S3Complete, S3Abort, FailSave, Register,
         Publish, At, histVars
<1>11. CASE Fault(r)
  <2>1. CASE CutShort(r)
    BY <1>5, <1>6, <2>1 DEF CutShort, PcInside, histVars
  <2>2. CASE S3Raises(r) \/ S3AbortFails(r) \/ PublishRaises(r)
    BY <1>6, <2>2, CriticalLabels, PcTypes
       DEF S3Raises, S3AbortFails, PublishRaises, At, histVars
  <2> QED BY <1>4, <1>11, <2>1, <2>2 DEF Fault, RedisRaises, Cancel
<1> QED BY <1>3, <1>4, <1>7, <1>8, <1>9, <1>10, <1>11
        DEF Handle, Work, FinalizeStep, CleanUpStep

(* So ids stay new until they are used.                                    *)
LEMMA BirthKept ==
  ASSUME TypeInv, BirthInv, [Next]_vars
  PROVE  BirthInv'
<1>1. ReqOK /\ session \in [Session -> {None} \cup UploadSessions]
      /\ issued \subseteq Session
  BY DEF TypeInv, StoreOK
<1>2. ASSUME NEW r \in Req, Arrive(r) \/ Handle(r) \/ Fault(r) PROVE BirthInv'
  <2>1. PICK label, s, u : Moves(r, label, s, u) /\ BirthStep(r, label, s)
    BY <1>1, <1>2, BirthMoves
  <2>2. PICK q : Becomes(r, q) /\ q.pc = label /\ q.on = s
    BY <2>1 DEF Moves
  <2>3. req'[r] = q /\ \A x \in Req \ {r} : req'[x] = req[x]
    BY <1>1, <2>2 DEF Becomes, ReqOK
  <2>4. \A x \in Req : req[x].pc \in PcInside => req[x].on \in issued
    <3>1. \A x \in Req : req[x].pc \in PcInside => req[x].on \in Session
      BY <1>1, InsideFacts
    <3> QED BY <3>1 DEF BirthInv
  <2>5. ASSUME NEW t \in Session,
               t \notin issued \/ \E x \in Req \ {r} : req[x].pc = "init_save" /\ req[x].on = t
        PROVE  session'[t] = None
    <3>1. session[t] = None
      BY <2>5 DEF BirthInv, Unborn
    <3>2. req[r].pc \in PcInside => req[r].on # t
      BY <2>5 DEF BirthInv
    <3>3. CASE session' = session
      BY <3>1, <3>3
    <3>4. CASE /\ req[r].pc \in {"init_save", "patch_save", "mal_save", "fail_save"}
               /\ SaveSession(req[r].on, req[r].snap)
      BY <1>1, <3>1, <3>2, <3>4, PcTypes DEF SaveSession
    <3>5. CASE DeleteSession(req[r].on)
      BY <1>1, <3>1, <3>5 DEF DeleteSession
    <3> QED BY <1>1, <1>2, <3>3, <3>4, <3>5, SessionChanges
  <2>6. ASSUME NEW t \in Session \ issued'
        PROVE  session'[t] = None /\ \A x \in Req : req'[x].pc \in PcInside => req'[x].on # t
    <3>1. t \notin issued /\ (label = "init_save" => s # t)
      BY <2>1, <2>6, PcTypes DEF BirthStep
    <3>2. session'[t] = None
      BY <2>5, <3>1
    <3>3. label \in PcInside => s # t
      <4>1. s \in issued => s # t
        BY <3>1
      <4>2. session[s] # None /\ s \in Session => s \in issued
        BY DEF BirthInv, Unborn
      <4> QED BY <2>1, <2>4, <3>1, <4>1, <4>2 DEF BirthStep
    <3>4. \A x \in Req \ {r} : req[x].pc \in PcInside => req[x].on # t
      BY <2>4, <3>1
    <3> QED BY <2>2, <2>3, <3>2, <3>3, <3>4
  <2>7. ASSUME NEW x \in Req, req'[x].pc = "init_save"
        PROVE  /\ session'[req'[x].on] = None
               /\ \A y \in Req \ {x} : req'[y].pc \in PcInside => req'[y].on # req'[x].on
    <3>1. CASE x = r
      <4>1. /\ label = "init_save" /\ s \in Session \ issued /\ session' = session
            /\ req'[x].on = s
        BY <2>1, <2>2, <2>3, <2>7, <3>1, PcTypes DEF BirthStep
      <4>2. session'[s] = None
        BY <4>1 DEF BirthInv, Unborn
      <4> QED BY <2>3, <2>4, <3>1, <4>1, <4>2
    <3>2. CASE x # r
      <4> DEFINE t == req[x].on
      <4>1. req'[x] = req[x] /\ req[x].pc = "init_save" /\ "init_save" \in PcInside
        BY <2>3, <2>7, <3>2, PcTypes
      <4>2. t \in Session /\ t \in issued /\ session[t] = None
        BY <1>1, <2>4, <4>1, InsideFacts DEF BirthInv, Unborn
      <4>3. session'[t] = None
        BY <2>5, <3>2, <4>1, <4>2
      <4>4. \A y \in Req \ {x} : req[y].pc \in PcInside => req[y].on # t
        BY <4>1 DEF BirthInv
      <4>5. label \in PcInside => s # t
        BY <2>1, <3>2, <4>2, <4>4 DEF BirthStep
      <4> QED BY <2>2, <2>3, <4>1, <4>3, <4>4, <4>5
    <3> QED BY <3>1, <3>2
  <2> QED BY <2>6, <2>7 DEF BirthInv, Unborn
<1>3. ASSUME NEW s \in Session, LockExpires(s) \/ KeyExpires(s) PROVE BirthInv'
  <2>1. /\ req' = req /\ issued' = issued
        /\ session' = session \/ DeleteSession(s)
    BY <1>3 DEF LockExpires, KeyExpires, histVars
  <2>2. \A t \in Session : session[t] = None => session'[t] = None
    BY <1>1, <2>1 DEF DeleteSession
  <2>3. \A x \in Req : req[x].pc = "init_save" => req[x].on \in Session
    BY <1>1, PcTypes, InsideFacts
  <2> QED BY <2>1, <2>2, <2>3 DEF BirthInv, Unborn
<1>4. CASE UNCHANGED vars
  BY <1>4 DEF vars, redisVars, histVars, BirthInv, Unborn
<1> QED BY <1>2, <1>3, <1>4 DEF Next

-----------------------------------------------------------------------------
(* Cleaning up.  What a request knows of the sessions and chunks stored    *)
(* while it cleans up, and that a PATCH is one.                            *)
NoChunkIn(s, c) == \A i \in Index : c[s][i] = None

Cleaned(q) ==
  q.status \in {204, 422} \/ (q.op = "finalize" /\ q.status = 200)

CleansUp(q, v, c) ==
  /\ q.pc \in PcPatch => q.op = "patch"
  /\ q.pc = "purge_delete" =>
       \A i \in Index : c[q.on][i] # None => i \in q.found
  /\ q.pc = "drop" => NoChunkIn(q.on, c)
  /\ q.pc = "release" /\ Cleaned(q) => v[q.on] = None /\ NoChunkIn(q.on, c)

PurgeInv == \A r \in Req : CleansUp(req[r], session, chunk)

(* The labels at which there is something to know.                         *)
PcKnowing == PcPatch \cup {"purge_delete", "drop", "release"}

(* No exception that is not about malware is answered 422, and none 200 or *)
(* 204: a handler that gives up does not claim to have cleaned up.         *)
LEMMA GivingUpStatuses ==
  \A code \in {PatchStatus("ValidationError"), PatchStatus("ChecksumMismatchError"),
                PatchStatus("ValueError"), FinalizeStatus("RuntimeError"), ServerError} :
    code \notin {200, 204, 422}
<1>1. GlobalStatus("ValueError") = 500 /\ GlobalStatus("RuntimeError") = 500
      /\ ServerError = 500
  BY DEF GlobalStatus, ServerError, DomainErrors, ValidationErrors
<1>2. PatchStatus("ValidationError") = 400 /\ PatchStatus("ChecksumMismatchError") = 460
  BY DEF PatchStatus, BadRequest, ValidationErrors
<1>3. PatchStatus("ValueError") = 500 /\ FinalizeStatus("RuntimeError") = 500
  BY <1>1 DEF PatchStatus, FinalizeStatus, BadRequest, ValidationErrors
<1> QED BY <1>1, <1>2, <1>3

(* What a step makes of the record of its request.                         *)
Cleans(r) == \E q : Becomes(r, q) /\ CleansUp(q, session', chunk')

(* The ways a record changes that leave nothing new to know.               *)
LEMMA CleansForms ==
  ASSUME ReqOK, NEW r \in Req
  PROVE  /\ \A label, op, s, u, a, code :
              /\ Becomes(r, NewRequest(label, op, s, u, a, code))
              /\ label \notin PcKnowing \/ (label = "patch_lock" /\ op = "patch")
              => Cleans(r)
         /\ \A label, u :
              /\ Go(r, label) \/ GoWith(r, label, u)
              /\ label \notin PcKnowing \/ (label \in PcPatch /\ req[r].op = "patch")
              => Cleans(r)
         /\ \A code, u : Conclude(r, code, u) => Cleans(r)
         /\ \A code : Answer(r, code) => Cleans(r)
         /\ \A code :
              /\ Leave(r, code)
              /\ code \notin {200, 204, 422} \/ (code = 200 /\ req[r].op = "patch")
              => Cleans(r)
<1>1. req[r] \in Requests
  BY DEF ReqOK
<1>2. \A q : q.pc \notin PcKnowing => CleansUp(q, session', chunk')
  BY DEF CleansUp, PcKnowing
<1>3. \A q : q.pc \in PcPatch /\ q.op = "patch" => CleansUp(q, session', chunk')
  BY DEF CleansUp, PcPatch
<1>4. ASSUME NEW label, NEW op, NEW s, NEW u, NEW a, NEW code,
             Becomes(r, NewRequest(label, op, s, u, a, code)),
             label \notin PcKnowing \/ (label = "patch_lock" /\ op = "patch")
      PROVE  Cleans(r)
  <2> DEFINE q == NewRequest(label, op, s, u, a, code)
  <2>1. q.pc = label /\ q.op = op
    BY DEF NewRequest
  <2>2. Becomes(r, q)
    BY <1>4
  <2> HIDE DEF q
  <2> QED BY <1>2, <1>3, <1>4, <2>1, <2>2 DEF Cleans, PcPatch
<1>5. ASSUME NEW code, Answer(r, code) PROVE Cleans(r)
  <2>1. "reply" \notin PcKnowing
    BY DEF PcKnowing, PcPatch
  <2> QED BY <1>4, <1>5, <2>1 DEF Answer
<1>6. ASSUME NEW q, Becomes(r, q),
             q.pc \notin PcKnowing \/ (q.pc \in PcPatch /\ q.op = "patch")
      PROVE  Cleans(r)
  BY <1>2, <1>3, <1>6 DEF Cleans
<1>7. ASSUME NEW label, Go(r, label),
             label \notin PcKnowing \/ (label \in PcPatch /\ req[r].op = "patch")
      PROVE  Cleans(r)
  <2> DEFINE q == [req[r] EXCEPT !.pc = label]
  <2>1. q.pc = label /\ q.op = req[r].op
    BY <1>1 DEF Requests
  <2>2. Becomes(r, q)
    BY <1>7 DEF Go
  <2> HIDE DEF q
  <2> QED BY <1>6, <1>7, <2>1, <2>2
<1>8. ASSUME NEW label, NEW u, GoWith(r, label, u),
             label \notin PcKnowing \/ (label \in PcPatch /\ req[r].op = "patch")
      PROVE  Cleans(r)
  <2> DEFINE q == [req[r] EXCEPT !.pc = label, !.snap = u]
  <2>1. q.pc = label /\ q.op = req[r].op
    BY <1>1 DEF Requests
  <2>2. Becomes(r, q)
    BY <1>8 DEF GoWith
  <2> HIDE DEF q
  <2> QED BY <1>6, <1>8, <2>1, <2>2
<1>9. ASSUME NEW code, NEW u, Conclude(r, code, u) PROVE Cleans(r)
  <2> DEFINE q == [req[r] EXCEPT !.pc = "purge_scan", !.status = code, !.snap = u]
  <2>1. q.pc = "purge_scan"
    BY <1>1 DEF Requests
  <2>2. Becomes(r, q)
    BY <1>9 DEF Conclude
  <2>3. "purge_scan" \notin PcKnowing
    BY DEF PcKnowing, PcPatch
  <2> HIDE DEF q
  <2> QED BY <1>6, <2>1, <2>2, <2>3
<1>10. ASSUME NEW code, Leave(r, code),
              code \notin {200, 204, 422} \/ (code = 200 /\ req[r].op = "patch")
       PROVE  Cleans(r)
  <2> DEFINE q == [req[r] EXCEPT !.pc = "release", !.status = code]
  <2>1. q.pc = "release" /\ q.op = req[r].op /\ q.status = code
    BY <1>1 DEF Requests
  <2>2. Becomes(r, q)
    BY <1>10 DEF Leave
  <2> HIDE DEF q
  <2>3. ~Cleaned(q)
    BY <1>10, <2>1 DEF Cleaned
  <2>4. CleansUp(q, session', chunk')
    BY <2>1, <2>3 DEF CleansUp, PcPatch
  <2> QED BY <2>2, <2>4 DEF Cleans
<1> QED BY <1>4, <1>5, <1>7, <1>8, <1>9, <1>10

(* The steps that clean up: every chunk found is deleted, and nobody else  *)
(* can have stored one since.                                              *)
LEMMA CleaningSteps ==
  ASSUME TypeInv, PurgeInv, NEW r \in Req,
         PurgeScan(r) \/ PurgeDelete(r) \/ Drop(r)
  PROVE  Cleans(r)
<1> DEFINE s == req[r].on
<1>1. /\ req[r] \in Requests /\ ReqOK
      /\ chunk \in [Session -> [Index -> {None} \cup Payload]]
      /\ session \in [Session -> {None} \cup UploadSessions]
  BY DEF TypeInv, ReqOK, StoreOK
<1>2. s \in Session
  BY <1>1, PcTypes, InsideFacts DEF PurgeScan, PurgeDelete, Drop, At
<1>3. CleansUp(req[r], session, chunk)
  BY DEF PurgeInv
<1>4. CASE PurgeScan(r)
  <2> DEFINE q == [req[r] EXCEPT !.pc = "purge_delete", !.found = StoredIndices(s)]
  <2>1. q.pc = "purge_delete" /\ q.on = s /\ q.found = StoredIndices(s)
    BY <1>1 DEF Requests
  <2>2. Becomes(r, q) /\ chunk' = chunk
    BY <1>4 DEF PurgeScan, redisVars
  <2> HIDE DEF q
  <2>3. CleansUp(q, session', chunk')
    BY <2>1, <2>2 DEF CleansUp, StoredIndices, PcPatch
  <2> QED BY <2>2, <2>3 DEF Cleans
<1>5. CASE PurgeDelete(r)
  <2> DEFINE q == [req[r] EXCEPT !.pc = "drop"]
  <2>1. q.pc = "drop" /\ q.on = s
    BY <1>1 DEF Requests
  <2>2. Becomes(r, q)
    BY <1>5 DEF PurgeDelete, Go
  <2> HIDE DEF q
  <2>3. \A i \in Index : chunk[s][i] # None => i \in req[r].found
    BY <1>3, <1>5 DEF CleansUp, PurgeDelete, At
  <2>4. \A i \in Index :
          chunk'[s][i] = IF i \in req[r].found THEN None ELSE chunk[s][i]
    BY <1>1, <1>2, <1>5 DEF PurgeDelete, DeleteChunks
  <2>5. NoChunkIn(s, chunk')
    BY <2>3, <2>4 DEF NoChunkIn
  <2>6. CleansUp(q, session', chunk')
    BY <2>1, <2>5 DEF CleansUp, PcPatch
  <2> QED BY <2>2, <2>6 DEF Cleans
<1>6. CASE Drop(r)
  <2> DEFINE q == [req[r] EXCEPT !.pc = "release"]
  <2>1. q.pc = "release" /\ q.on = s
    BY <1>1 DEF Requests
  <2>2. Becomes(r, q) /\ chunk' = chunk
    BY <1>6 DEF Drop, Go
  <2> HIDE DEF q
  <2>3. NoChunkIn(s, chunk') /\ session'[s] = None
    BY <1>1, <1>2, <1>3, <1>6, <2>2 DEF CleansUp, Drop, At, DeleteSession
  <2>4. CleansUp(q, session', chunk')
    BY <2>1, <2>3 DEF CleansUp, PcPatch
  <2> QED BY <2>2, <2>4 DEF Cleans
<1> QED BY <1>4, <1>5, <1>6

(* All steps of a request.                                                 *)
LEMMA AllStepsClean ==
  ASSUME TypeInv, PurgeInv, NEW r \in Req, Arrive(r) \/ Handle(r) \/ Fault(r)
  PROVE  Cleans(r)
<1>1. ReqOK /\ req[r] \in Requests
  BY DEF TypeInv, ReqOK
<1>2. CleansUp(req[r], session, chunk)
  BY DEF PurgeInv
<1>3. /\ {"idle", "reply", "init_save", "final_lock", "abort_lock", "scan", "mal_save",
          "fail_save", "s3_initiate", "s3_part", "s3_complete", "s3_abort",
          "register", "publish"} \cap PcKnowing = {}
      /\ "patch_lock" \in PcPatch /\ "patch_store" \in PcPatch /\ "patch_save" \in PcPatch
  BY DEF PcKnowing, PcPatch
<1>4. req[r].pc \in PcPatch => req[r].op = "patch"
  BY <1>2 DEF CleansUp
<1>5. CASE Arrive(r)
  BY <1>1, <1>3, <1>5, CleansForms
     DEF Arrive, InitiateCheck, PatchGet, QueryGet, AbortGet, FinalizeGet,
         Receive, Refuse
<1>6. CASE InitiateSave(r) \/ Respond(r) \/ Release(r) \/ Crash(r)
  BY <1>1, <1>3, <1>6, CleansForms
     DEF InitiateSave, Respond, Release, Crash, IdleRequest
<1>7. CASE PatchStep(r)
  <2>1. req[r].op = "patch"
    BY <1>3, <1>4, <1>7 DEF PatchStep, PatchLock, PatchStore, PatchSave, At
  <2>2. \/ \E label \in {"patch_store", "patch_save"} :
             Go(r, label) \/ \E u : GoWith(r, label, u)
        \/ \E code : Answer(r, code)
        \/ \E code \in {PatchStatus("ValidationError"), PatchStatus("ValueError"),
                         PatchStatus("ChecksumMismatchError"), 200} : Leave(r, code)
    BY <1>7 DEF PatchStep, PatchLock, PatchStore, PatchSave
  <2> QED BY <1>1, <1>3, <2>1, <2>2, CleansForms, GivingUpStatuses
<1>8. CASE AbortLock(r) \/ MalwareSave(r) \/ Publish(r)
  BY <1>1, <1>8, CleansForms DEF AbortLock, MalwareSave, Publish
<1>9. CASE PurgeScan(r) \/ PurgeDelete(r) \/ Drop(r)
  BY <1>9, CleaningSteps
<1>10. CASE S3Complete(r) \/ Register(r) \/ FinalizeLock(r) \/ S3Abort(r)
            \/ S3AbortFails(r)
  <2>1. \/ \E label \in {"register", "s3_abort", "publish", "scan", "fail_save"} :
             Go(r, label) \/ \E u : GoWith(r, label, u)
        \/ \E code : Answer(r, code)
    BY <1>10 DEF S3Complete, Register, FinalizeLock, S3Abort, S3AbortFails
  <2> QED BY <1>1, <1>3, <2>1, CleansForms
<1>11. CASE Scan(r) \/ S3Initiate(r) \/ S3Part(r)
  <2>1. \E label \in {"scan", "s3_initiate", "mal_save", "s3_part", "s3_complete"} :
          \E u : Moves(r, label, req[r].on, u)
    BY <1>1, <1>11, CollectForms DEF Carries
  <2>2. PICK q : Becomes(r, q) /\ q.pc \notin PcKnowing
    BY <1>3, <2>1 DEF Moves
  <2> QED BY <2>2 DEF Cleans, CleansUp, PcKnowing
<1>12. CASE FailSave(r) \/ PublishRaises(r)
  <2>1. \E code \in {FinalizeStatus("RuntimeError"), ServerError} : Leave(r, code)
    BY <1>12 DEF FailSave, PublishRaises
  <2> QED BY <1>1, <2>1, CleansForms, GivingUpStatuses
<1>13. CASE CutShort(r)
  BY <1>1, <1>13, CleansForms, GivingUpStatuses DEF CutShort
<1>14. CASE S3Raises(r)
  BY <1>1, <1>3, <1>14, CleansForms, GivingUpStatuses DEF S3Raises
<1>15. CASE Fault(r)
  BY <1>6, <1>10, <1>12, <1>13, <1>14, <1>15 DEF Fault, RedisRaises, Cancel
<1> QED BY <1>5, <1>6, <1>7, <1>8, <1>9, <1>10, <1>11, <1>12, <1>15
        DEF Handle, Work, FinalizeStep, CleanUpStep

(* What another request knows stays true: while it cleans up, nobody else  *)
(* stores a chunk or saves the session.                                    *)
LEMMA CleanerUndisturbed ==
  ASSUME TypeInv, MutualExclusion, BirthInv, NEW r \in Req,
         Arrive(r) \/ Handle(r) \/ Fault(r),
         NEW x \in Req \ {r}, CleansUp(req[x], session, chunk)
  PROVE  CleansUp(req[x], session', chunk')
<1> DEFINE s == req[x].on
<1>1. ReqOK /\ session \in [Session -> {None} \cup UploadSessions]
  BY DEF TypeInv, StoreOK
<1>2. CASE req[x].pc \notin {"purge_delete", "drop", "release"}
  BY <1>2 DEF CleansUp
<1>3. CASE req[x].pc \in {"purge_delete", "drop", "release"}
  <2>1. req[x].pc \in PcCritical /\ req[x].pc \in PcInside
    BY <1>3, CriticalLabels, PcTypes
  <2>2. s \in Session
    BY <1>1, <2>1, InsideFacts
  <2>3. \A i \in Index : chunk'[s][i] \in {None, chunk[s][i]}
    BY <2>1, OthersDoNotStore DEF NoneAppears
  <2>4. session[s] = None => session'[s] = None
    <3>1. CASE session' = session
      BY <3>1
    <3>2. CASE /\ req[r].pc \in {"init_save", "patch_save", "mal_save", "fail_save"}
               /\ SaveSession(req[r].on, req[r].snap)
      <4>1. req[r].on # s
        <5>1. CASE req[r].pc = "init_save"
          BY <2>1, <5>1 DEF BirthInv
        <5>2. CASE req[r].pc \in {"patch_save", "mal_save", "fail_save"}
          BY <2>1, <2>2, <5>2, CriticalLabels DEF MutualExclusion, Holds
        <5> QED BY <3>2, <5>1, <5>2
      <4> QED BY <1>1, <2>2, <3>2, <4>1 DEF SaveSession
    <3>3. CASE DeleteSession(req[r].on)
      BY <1>1, <2>2, <3>3 DEF DeleteSession
    <3> QED BY <1>1, <3>1, <3>2, <3>3, SessionChanges
  <2> QED BY <1>3, <2>3, <2>4 DEF CleansUp, NoChunkIn, PcPatch
<1> QED BY <1>2, <1>3

(* So every step keeps the invariant.                                      *)
LEMMA PurgeStep ==
  ASSUME TypeInv, MutualExclusion, BirthInv, PurgeInv, [Next]_vars
  PROVE  PurgeInv'
<1>1. /\ ReqOK
      /\ chunk \in [Session -> [Index -> {None} \cup Payload]]
      /\ session \in [Session -> {None} \cup UploadSessions]
  BY DEF TypeInv, StoreOK
<1>2. ASSUME NEW r \in Req, Arrive(r) \/ Handle(r) \/ Fault(r) PROVE PurgeInv'
  <2>1. PICK q : Becomes(r, q) /\ CleansUp(q, session', chunk')
    BY <1>2, AllStepsClean DEF Cleans
  <2>2. req'[r] = q /\ \A x \in Req \ {r} : req'[x] = req[x]
    BY <1>1, <2>1 DEF Becomes, ReqOK
  <2>3. \A x \in Req \ {r} : CleansUp(req[x], session', chunk')
    BY <1>2, CleanerUndisturbed DEF PurgeInv
  <2>4. \A x \in Req : CleansUp(req'[x], session', chunk')
    BY <2>1, <2>2, <2>3
  <2> QED BY <2>4 DEF PurgeInv, CleansUp, NoChunkIn
<1>3. ASSUME NEW s \in Session, LockExpires(s) \/ KeyExpires(s) PROVE PurgeInv'
  <2>1. req' = req
    BY <1>3 DEF LockExpires, KeyExpires
  <2>2. ASSUME NEW t \in Session
        PROVE  /\ \A i \in Index : chunk'[t][i] \in {None, chunk[t][i]}
               /\ session[t] = None => session'[t] = None
    <3>1. CASE chunk' = chunk /\ (session' = session \/ DeleteSession(s))
      BY <1>1, <3>1 DEF DeleteSession
    <3>2. ASSUME NEW i, session' = session, DeleteChunks(s, {i})
          PROVE  \A j \in Index : chunk'[t][j] \in {None, chunk[t][j]}
      BY <1>1, <3>2 DEF DeleteChunks
    <3> QED BY <1>3, <3>1, <3>2 DEF LockExpires, KeyExpires
  <2>3. \A x \in Req : req[x].pc \in {"purge_delete", "drop", "release"} =>
          req[x].on \in Session
    BY <1>1, PcTypes, InsideFacts
  <2>4. \A x \in Req : CleansUp(req[x], session', chunk')
    BY <2>2, <2>3 DEF PurgeInv, CleansUp, NoChunkIn
  <2> QED BY <2>1, <2>4 DEF PurgeInv, CleansUp, NoChunkIn
<1>4. CASE UNCHANGED vars
  BY <1>4 DEF vars, redisVars, PurgeInv, CleansUp, NoChunkIn
<1> QED BY <1>2, <1>3, <1>4 DEF Next

(* At first nobody cleans up, and no id is used.                           *)
LEMMA PurgeInit == Init => BirthInv /\ PurgeInv
<1> SUFFICES ASSUME Init PROVE BirthInv /\ PurgeInv
  OBVIOUS
<1>1. \A r \in Req : req[r].pc = "idle"
  BY DEF Init, InitState, IdleRequest, NewRequest
<1>2. "idle" \notin PcInside
  BY PcFacts
<1>3. BirthInv
  BY <1>1, <1>2 DEF Init, InitState, BirthInv, Unborn
<1>4. PurgeInv
  BY <1>1 DEF PurgeInv, CleansUp, PcPatch
<1> QED BY <1>3, <1>4

(* When an abort, a successful finalize or a malware verdict is about to   *)
(* release the lock, neither a chunk nor the session is left, whatever     *)
(* other requests were doing, while locks do not lapse.                    *)
THEOREM PurgesAreComplete ==
  ASSUME "lapse" \notin Faults
  PROVE  Spec => []PurgedAtRelease
<1> DEFINE Inv == TypeInv /\ LockInv /\ BirthInv /\ PurgeInv
<1>1. Init => Inv
  BY InitType, NobodyAtFirst, PurgeInit DEF LockInv, HoldersHaveLock, MutualExclusion
<1>2. Inv /\ [Next]_vars => Inv'
  <2>1. TypeInv /\ LockInv /\ [Next]_vars => (TypeInv /\ LockInv)'
    BY TypeStep, EveryLockStep, LockInvKept DEF TypeInv, StoreOK
  <2> QED BY <2>1, BirthKept, PurgeStep DEF LockInv
<1>3. Inv => PurgedAtRelease
  BY DEF PurgeInv, CleansUp, Cleaned, NoChunkIn, PurgedAtRelease, FinalizedOk,
         HasAnyChunk, At
<1> QED BY <1>1, <1>2, <1>3, PTL DEF Spec
=============================================================================
