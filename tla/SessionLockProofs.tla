-------------------------- MODULE SessionLockProofs --------------------------
(***************************************************************************)
(* Theorems about the session lock, for any number of requests and         *)
(* sessions.  Every step of the service is one of a few kinds of steps on  *)
(* the lock keys and the critical sections (LockStep); the rest is about   *)
(* these alone.                                                            *)
(***************************************************************************)
EXTENDS UploadServiceProofs

(* How a step changes who is inside which critical section.                *)
NobodyMoves == \A x \in Req, t \in Session : Holds(x, t)' <=> Holds(x, t)

Enters(r, s) ==
  \A x \in Req, t \in Session : Holds(x, t)' <=> Holds(x, t) \/ (x = r /\ t = s)

Exits(r, s) ==
  /\ Holds(r, s)
  /\ \A x \in Req, t \in Session :
       Holds(x, t)' <=> Holds(x, t) /\ ~(x = r /\ t = s)

(* The faults after which a lock may stay behind.                          *)
LeavesLocks == Faults \cap {"crash", "cancel", "redis"} # {}

LockStep ==
  \/ NobodyMoves /\ lock' = lock
  \/ \E r \in Req, s \in Session : AcquireLock(s) /\ Enters(r, s)
  \/ \E s \in Session : LeavesLocks /\ AcquireLock(s) /\ NobodyMoves
  \/ \E r \in Req, s \in Session : ReleaseLock(s) /\ Exits(r, s)
  \/ \E r \in Req, s \in Session :
       LeavesLocks /\ CutOff(r) /\ Exits(r, s) /\ lock' = lock
  \/ \E s \in Session :
       /\ LockExpires(s)
       /\ lock[s] /\ ReleaseLock(s) /\ NobodyMoves
       /\ "lapse" \in Faults \/ \A x \in Req : ~Holds(x, s)

-----------------------------------------------------------------------------
(* A step that replaces the record of r by q: both inside one              *)
(* critical section or both outside.                                       *)
LEMMA MoveWithin ==
  ASSUME ReqOK, NEW r \in Req, NEW q, Becomes(r, q),
         q.pc \in PcCritical <=> req[r].pc \in PcCritical,
         q.pc \in PcCritical => q.on = req[r].on
  PROVE  NobodyMoves
BY DEF ReqOK, Becomes, NobodyMoves, Holds

(* The request enters its critical section.                                *)
LEMMA MoveIn ==
  ASSUME ReqOK, NEW r \in Req, NEW q, Becomes(r, q), NEW s \in Session,
         req[r].pc \notin PcCritical, q.pc \in PcCritical, q.on = s
  PROVE  Enters(r, s)
BY DEF ReqOK, Becomes, Enters, Holds

(* The request leaves it.                                                  *)
LEMMA MoveOut ==
  ASSUME ReqOK, NEW r \in Req, NEW q, Becomes(r, q), NEW s \in Session,
         req[r].pc \in PcCritical, req[r].on = s, q.pc \notin PcCritical
  PROVE  Exits(r, s)
BY DEF ReqOK, Becomes, Exits, Holds

(* The labels of the critical section.                                     *)
LEMMA CriticalLabels ==
  /\ PcCritical = {"scan", "mal_save", "s3_part", "s3_complete", "s3_abort",
                   "register", "publish", "patch_store", "patch_save",
                   "s3_initiate", "fail_save", "purge_scan", "purge_delete",
                   "drop", "release"}
  /\ PcCritical \subseteq PcInside
BY DEF PcInside, PcCritical, PcScan, PcS3, PcCommitted

(* The operators by which a handler goes on keep its session, ...          *)
LEMMA Onward ==
  ASSUME ReqOK, NEW r \in Req, req[r].pc \in PcInside,
         \/ \E label \in PcCritical : Go(r, label)
         \/ \E label \in PcCritical : \E u : GoWith(r, label, u)
         \/ \E code : Leave(r, code)
         \/ \E code, u : Conclude(r, code, u)
         \/ \E p : Becomes(r, [req[r] EXCEPT !.pc = "purge_delete", !.found = p])
         \/ \E p : Becomes(r, [req[r] EXCEPT !.pc = "s3_part", !.upload = p])
         \/ req[r].pc \in PcCritical
              /\ \E p : Becomes(r, [req[r] EXCEPT !.seen = p])
         \/ req[r].pc \in PcCritical
              /\ \E p : Becomes(r, [req[r] EXCEPT !.parts = p])
  PROVE  \E q : Becomes(r, q) /\ q.pc \in PcCritical /\ q.on = req[r].on
<1>1. req[r] \in Requests
  BY DEF ReqOK
<1>2. ASSUME NEW label \in PcCritical, Go(r, label)
      PROVE  \E q : Becomes(r, q) /\ q.pc \in PcCritical /\ q.on = req[r].on
  <2> DEFINE q == [req[r] EXCEPT !.pc = label]
  <2>1. q.pc = label /\ q.on = req[r].on
    BY <1>1 DEF Requests
  <2> QED BY <1>2, <2>1 DEF Go
<1>3. ASSUME NEW label \in PcCritical, NEW u, GoWith(r, label, u)
      PROVE  \E q : Becomes(r, q) /\ q.pc \in PcCritical /\ q.on = req[r].on
  <2> DEFINE q == [req[r] EXCEPT !.pc = label, !.snap = u]
  <2>1. q.pc = label /\ q.on = req[r].on
    BY <1>1 DEF Requests
  <2> QED BY <1>3, <2>1 DEF GoWith
<1>4. ASSUME NEW code, Leave(r, code)
      PROVE  \E q : Becomes(r, q) /\ q.pc \in PcCritical /\ q.on = req[r].on
  <2> DEFINE q == [req[r] EXCEPT !.pc = "release", !.status = code]
  <2>1. q.pc \in PcCritical /\ q.on = req[r].on
    BY <1>1, CriticalLabels DEF Requests
  <2>2. Becomes(r, q)
    BY <1>4 DEF Leave
  <2> QED BY <2>1, <2>2
<1>5. ASSUME NEW code, NEW u, Conclude(r, code, u)
      PROVE  \E q : Becomes(r, q) /\ q.pc \in PcCritical /\ q.on = req[r].on
  <2> DEFINE q == [req[r] EXCEPT !.pc = "purge_scan", !.status = code, !.snap = u]
  <2>1. q.pc \in PcCritical /\ q.on = req[r].on
    BY <1>1, CriticalLabels DEF Requests
  <2>2. Becomes(r, q)
    BY <1>5 DEF Conclude
  <2> QED BY <2>1, <2>2
<1>6. ASSUME NEW p, Becomes(r, [req[r] EXCEPT !.pc = "purge_delete", !.found = p])
      PROVE  \E q : Becomes(r, q) /\ q.pc \in PcCritical /\ q.on = req[r].on
  <2> DEFINE q == [req[r] EXCEPT !.pc = "purge_delete", !.found = p]
  <2>1. q.pc \in PcCritical /\ q.on = req[r].on
    BY <1>1, CriticalLabels DEF Requests
  <2>2. Becomes(r, q)
    BY <1>6
  <2> QED BY <2>1, <2>2
<1>7. ASSUME NEW p, Becomes(r, [req[r] EXCEPT !.pc = "s3_part", !.upload = p])
      PROVE  \E q : Becomes(r, q) /\ q.pc \in PcCritical /\ q.on = req[r].on
  <2> DEFINE q == [req[r] EXCEPT !.pc = "s3_part", !.upload = p]
  <2>1. q.pc \in PcCritical /\ q.on = req[r].on
    BY <1>1, CriticalLabels DEF Requests
  <2>2. Becomes(r, q)
    BY <1>7
  <2> QED BY <2>1, <2>2
<1>8. ASSUME NEW p, req[r].pc \in PcCritical,
             \/ Becomes(r, [req[r] EXCEPT !.seen = p])
             \/ Becomes(r, [req[r] EXCEPT !.parts = p])
      PROVE  \E q : Becomes(r, q) /\ q.pc \in PcCritical /\ q.on = req[r].on
  <2> DEFINE q1 == [req[r] EXCEPT !.seen = p]
             q2 == [req[r] EXCEPT !.parts = p]
  <2>1. q1.pc = req[r].pc /\ q1.on = req[r].on
        /\ q2.pc = req[r].pc /\ q2.on = req[r].on
    BY <1>1 DEF Requests
  <2> QED BY <1>8, <2>1
<1> QED BY <1>2, <1>3, <1>4, <1>5, <1>6, <1>7, <1>8

(* ... and answering takes it out.                                         *)
LEMMA Outward ==
  ASSUME NEW r \in Req, NEW code, Answer(r, code)
  PROVE  \E q : Becomes(r, q) /\ q.pc \notin PcCritical
<1> DEFINE q == NewRequest("reply", req[r].op, req[r].on, req[r].snap, None, code)
<1>1. q.pc = "reply"
  BY DEF NewRequest
<1> QED BY <1>1, CriticalLabels DEF Answer

-----------------------------------------------------------------------------
(* Before the lock and after the response.                                 *)
LEMMA OutsideSteps ==
  ASSUME TypeInv, NEW r \in Req,
         Arrive(r) \/ InitiateSave(r) \/ Respond(r)
  PROVE  LockStep
<1>1. ReqOK
  BY DEF TypeInv
<1>2. lock' = lock /\ req[r].pc \in {"idle", "init_save", "reply"}
  BY DEF Arrive, InitiateCheck, PatchGet, QueryGet, AbortGet, FinalizeGet,
         InitiateSave, Respond, At, redisVars
<1>3. \E label \in {"idle", "reply"} \cup PcBeforeLock :
        \E op, s, u, a, code : Becomes(r, NewRequest(label, op, s, u, a, code))
  BY DEF Arrive, InitiateCheck, PatchGet, QueryGet, AbortGet, FinalizeGet,
         InitiateSave, Respond, Receive, Refuse, Answer, IdleRequest, PcBeforeLock
<1>4. \A label, op, s, u, a, code :
        NewRequest(label, op, s, u, a, code).pc = label
  BY DEF NewRequest
<1>5. \A label \in {"idle", "reply"} \cup PcBeforeLock : label \notin PcCritical
  BY CriticalLabels DEF PcBeforeLock
<1>6. NobodyMoves
  BY <1>1, <1>2, <1>3, <1>4, <1>5, CriticalLabels, MoveWithin
<1> QED BY <1>2, <1>6 DEF LockStep

(* Between taking the lock and releasing it.                               *)
LEMMA InsideSteps ==
  ASSUME TypeInv, NEW r \in Req,
         \/ PatchStore(r) \/ PatchSave(r)
         \/ PurgeScan(r) \/ PurgeDelete(r) \/ Drop(r)
         \/ Scan(r) \/ MalwareSave(r) \/ S3Initiate(r) \/ S3Part(r)
         \/ S3Complete(r) \/ S3Abort(r) \/ FailSave(r) \/ Register(r)
         \/ Publish(r) \/ S3Raises(r) \/ S3AbortFails(r) \/ PublishRaises(r)
  PROVE  LockStep
<1>1. ReqOK
  BY DEF TypeInv
<1>2. req[r].pc \in PcCritical /\ req[r].pc \in PcInside
  BY CriticalLabels
     DEF PatchStore, PatchSave, PurgeScan, PurgeDelete, Drop, Scan, MalwareSave,
         S3Initiate, S3Part, S3Complete, S3Abort, FailSave, Register, Publish,
         S3Raises, S3AbortFails, PublishRaises, At
<1>3. lock' = lock
  BY DEF PatchStore, PatchSave, PurgeScan, PurgeDelete, Drop, Scan, MalwareSave,
         S3Initiate, S3Part, S3Complete, S3Abort, FailSave, Register, Publish,
         S3Raises, S3AbortFails, PublishRaises, redisVars
<1>4. \/ \E label \in PcCritical : Go(r, label)
      \/ \E label \in PcCritical : \E u : GoWith(r, label, u)
      \/ \E code : Leave(r, code)
      \/ \E code, u : Conclude(r, code, u)
      \/ \E p : Becomes(r, [req[r] EXCEPT !.pc = "purge_delete", !.found = p])
      \/ \E p : Becomes(r, [req[r] EXCEPT !.pc = "s3_part", !.upload = p])
      \/ \E p : Becomes(r, [req[r] EXCEPT !.seen = p])
      \/ \E p : Becomes(r, [req[r] EXCEPT !.parts = p])
  BY CriticalLabels
     DEF PatchStore, PatchSave, PurgeScan, PurgeDelete, Drop, Scan, MalwareSave,
         S3Initiate, S3Part, UploadPart, S3Complete, S3Abort, FailSave,
         Register, Publish, S3Raises, S3AbortFails, PublishRaises
<1>5. \E q : Becomes(r, q) /\ q.pc \in PcCritical /\ q.on = req[r].on
  BY <1>1, <1>2, <1>4, Onward
<1>6. NobodyMoves
  BY <1>1, <1>2, <1>5, MoveWithin
<1> QED BY <1>3, <1>6 DEF LockStep

(* Taking the lock, or being refused it.                                   *)
LEMMA TakingSteps ==
  ASSUME TypeInv, NEW r \in Req,
         PatchLock(r) \/ AbortLock(r) \/ FinalizeLock(r)
  PROVE  LockStep
<1>1. ReqOK
  BY DEF TypeInv
<1>2. req[r].pc \in PcInside /\ req[r].pc \notin PcCritical
  BY CriticalLabels, PcTypes DEF PatchLock, AbortLock, FinalizeLock, At
<1>3. req[r].on \in Session
  BY <1>1, <1>2, InsideFacts
<1>4. \/ lock' = lock /\ \E code : Answer(r, code)
      \/ /\ AcquireLock(req[r].on)
         /\ \/ \E label \in PcCritical : Go(r, label)
            \/ \E code : Leave(r, code)
            \/ \E code, u : Conclude(r, code, u)
  BY CriticalLabels DEF PatchLock, AbortLock, FinalizeLock
<1>5. CASE lock' = lock /\ \E code : Answer(r, code)
  <2>1. NobodyMoves
    BY <1>1, <1>2, <1>5, Outward, MoveWithin
  <2> QED BY <1>5, <2>1 DEF LockStep
<1>6. CASE /\ AcquireLock(req[r].on)
           /\ \/ \E label \in PcCritical : Go(r, label)
              \/ \E code : Leave(r, code)
              \/ \E code, u : Conclude(r, code, u)
  <2>1. \E q : Becomes(r, q) /\ q.pc \in PcCritical /\ q.on = req[r].on
    BY <1>1, <1>2, <1>6, Onward
  <2>2. Enters(r, req[r].on)
    BY <1>1, <1>2, <1>3, <2>1, MoveIn
  <2> QED BY <1>3, <1>6, <2>2 DEF LockStep
<1> QED BY <1>4, <1>5, <1>6

(* Releasing it.                                                           *)
LEMMA ReleasingStep ==
  ASSUME TypeInv, NEW r \in Req, Release(r)
  PROVE  LockStep
<1>1. ReqOK
  BY DEF TypeInv
<1>2. req[r].pc \in PcInside /\ req[r].pc \in PcCritical
  BY CriticalLabels DEF Release, At
<1>3. req[r].on \in Session
  BY <1>1, <1>2, InsideFacts
<1>4. Exits(r, req[r].on)
  BY <1>1, <1>2, <1>3, Outward, MoveOut DEF Release
<1> QED BY <1>3, <1>4 DEF LockStep, Release

(* A worker dies or stops, or Redis does not answer.                       *)
LEMMA CuttingSteps ==
  ASSUME TypeInv, NEW r \in Req, Crash(r) \/ RedisRaises(r) \/ Cancel(r)
  PROVE  LockStep
<1>1. ReqOK /\ LeavesLocks /\ CutOff(r)
  BY DEF TypeInv, Crash, RedisRaises, Cancel, LeavesLocks, CutOff
<1>2. ASSUME req[r].pc \in PcCritical
      PROVE  req[r].pc \in PcInside /\ req[r].on \in Session
  BY <1>1, <1>2, CriticalLabels, InsideFacts
<1>3. CASE Crash(r)
  <2> DEFINE q == IdleRequest
  <2>1. Becomes(r, q) /\ lock' = lock
    BY <1>3 DEF Crash, redisVars
  <2>2. q.pc \notin PcCritical
    BY CriticalLabels DEF IdleRequest, NewRequest
  <2> HIDE DEF q
  <2>3. CASE req[r].pc \in PcCritical
    <3>1. Exits(r, req[r].on)
      BY <1>1, <1>2, <2>1, <2>2, <2>3, MoveOut
    <3> QED BY <1>1, <1>2, <2>1, <2>3, <3>1 DEF LockStep
  <2>4. CASE req[r].pc \notin PcCritical
    <3>1. NobodyMoves
      BY <1>1, <2>1, <2>2, <2>4, MoveWithin
    <3> QED BY <2>1, <3>1 DEF LockStep
  <2> QED BY <2>3, <2>4
<1>4. CASE CutShort(r)
  <2>1. CASE /\ req[r].pc \in PcBeforeLock
             /\ Answer(r, ServerError)
             /\ UNCHANGED lock \/ AcquireLock(req[r].on)
    <3>1. req[r].pc \in PcInside /\ req[r].pc \notin PcCritical
      BY <2>1, CriticalLabels DEF PcBeforeLock, PcInside
    <3>2. req[r].on \in Session
      BY <1>1, <3>1, InsideFacts
    <3>3. NobodyMoves
      BY <1>1, <2>1, <3>1, Outward, MoveWithin
    <3> QED BY <1>1, <2>1, <3>2, <3>3 DEF LockStep
  <2>2. CASE req[r].pc \in PcCritical /\ Leave(r, ServerError) /\ UNCHANGED lock
    <3>1. \E q : Becomes(r, q) /\ q.pc \in PcCritical /\ q.on = req[r].on
      BY <1>1, <1>2, <2>2, Onward
    <3>2. NobodyMoves
      BY <1>1, <2>2, <3>1, MoveWithin
    <3> QED BY <2>2, <3>2 DEF LockStep
  <2>3. CASE /\ At(r, "release")
             /\ Answer(r, ServerError)
             /\ UNCHANGED lock \/ ReleaseLock(req[r].on)
    <3>1. req[r].pc \in PcCritical
      BY <2>3, CriticalLabels DEF At
    <3>2. Exits(r, req[r].on)
      BY <1>1, <1>2, <2>3, <3>1, Outward, MoveOut
    <3> QED BY <1>1, <1>2, <2>3, <3>1, <3>2 DEF LockStep
  <2> QED BY <1>4, <2>1, <2>2, <2>3 DEF CutShort
<1> QED BY <1>3, <1>4 DEF RedisRaises, Cancel

(* Keys expire.                                                            *)
LEMMA ExpirySteps ==
  ASSUME NEW s \in Session, LockExpires(s) \/ KeyExpires(s)
  PROVE  LockStep
<1>1. NobodyMoves
  BY DEF LockExpires, KeyExpires, NobodyMoves, Holds
<1> QED BY <1>1 DEF LockExpires, KeyExpires, LockStep

(* Every step of the service is a LockStep.                                *)
LEMMA EveryLockStep == TypeInv /\ [Next]_vars => LockStep
<1> SUFFICES ASSUME TypeInv, [Next]_vars PROVE LockStep
  OBVIOUS
<1>1. ASSUME NEW r \in Req, Arrive(r) PROVE LockStep
  BY <1>1, OutsideSteps
<1>2. ASSUME NEW r \in Req, Handle(r) PROVE LockStep
  BY <1>2, OutsideSteps, InsideSteps, TakingSteps, ReleasingStep
     DEF Handle, Work, PatchStep, FinalizeStep, CleanUpStep
<1>3. ASSUME NEW r \in Req, Fault(r) PROVE LockStep
  BY <1>3, InsideSteps, CuttingSteps DEF Fault
<1>4. ASSUME NEW s \in Session, LockExpires(s) \/ KeyExpires(s) PROVE LockStep
  BY <1>4, ExpirySteps
<1>5. CASE UNCHANGED vars
  BY <1>5 DEF vars, redisVars, LockStep, NobodyMoves, Holds
<1> QED BY <1>1, <1>2, <1>3, <1>4, <1>5 DEF Next

(* At first nobody is inside a critical section and no lock is taken.      *)
LEMMA NobodyAtFirst ==
  Init => \A s \in Session : ~lock[s] /\ \A r \in Req : ~Holds(r, s)
BY CriticalLabels DEF Init, InitState, IdleRequest, NewRequest, Holds

-----------------------------------------------------------------------------
(* The handlers together use the session lock as SessionLock says, for any *)
(* number of requests and sessions and under any faults: only those that   *)
(* may happen widen what SessionLock allows.                               *)
THEOREM LockRefines == Spec => ImplementsLock
<1>1. Init => TypeInv /\ Locking!Init
  <2> SUFFICES ASSUME Init PROVE Locking!Init
    BY InitType
  <2>1. {x \in Req \X Session : Holds(x[1], x[2])} = {}
    BY NobodyAtFirst
  <2>2. lock = [s \in Session |-> FALSE]
    BY DEF Init, InitState
  <2> QED BY <2>1, <2>2 DEF Locking!Init
<1>2. LockStep => [Locking!Next]_(Locking!lockVars)
  <2> DEFINE inside == {x \in Req \X Session : Holds(x[1], x[2])}
  <2>1. \A r \in Req, s \in Session : <<r, s>> \in inside <=> Holds(r, s)
    OBVIOUS
  <2>2. NobodyMoves => inside' = inside
    BY DEF NobodyMoves
  <2>3. \A r \in Req, s \in Session :
          Enters(r, s) => inside' = inside \cup {<<r, s>>}
    BY DEF Enters
  <2>4. \A r \in Req, s \in Session :
          Exits(r, s) => inside' = inside \ {<<r, s>>} /\ <<r, s>> \in inside
    BY DEF Exits
  <2> QED
    BY <2>1, <2>2, <2>3, <2>4
       DEF LockStep, AcquireLock, LockIsFree, ReleaseLock, Locking!Next,
           Locking!lockVars, Locking!Acquire, Locking!AcquireUnheard,
           Locking!Release, Locking!Abandon, Locking!Expire, Locking!Set,
           Locking!Clear, LeavesLocks
<1> QED
  BY <1>1, <1>2, TypeStep, EveryLockStep, PTL DEF Spec, ImplementsLock, Locking!Spec

(* What any handler may do about locks, under all faults, lapsing locks    *)
(* included: a key is only set by who goes in, only deleted by who comes   *)
(* out or by its TTL, and only a fault lets a request out without.         *)
THEOREM LocksAreKeptTo == Spec => HandlersKeepToLock
<1> DEFINE Keeps(s) ==
             /\ \A r \in Req : ~Holds(r, s) /\ Holds(r, s)' => ~lock[s] /\ lock'[s]
             /\ \A r \in Req : Holds(r, s) /\ ~Holds(r, s)' => ~lock'[s] \/ CutOff(r)
             /\ lock[s] /\ ~lock'[s] =>
                  LockExpires(s) \/ \E r \in Req : Holds(r, s) /\ ~Holds(r, s)'
<1>1. ASSUME lock \in [Session -> BOOLEAN], LockStep, NEW s \in Session
      PROVE  Keeps(s)
  <2>1. CASE NobodyMoves /\ lock' = lock
    BY <2>1 DEF NobodyMoves
  <2>2. ASSUME NEW r \in Req, NEW t \in Session, AcquireLock(t), Enters(r, t)
        PROVE  Keeps(s)
    BY <1>1, <2>2 DEF AcquireLock, LockIsFree, Enters
  <2>3. ASSUME NEW t \in Session, AcquireLock(t), NobodyMoves
        PROVE  Keeps(s)
    BY <1>1, <2>3 DEF AcquireLock, LockIsFree, NobodyMoves
  <2>4. ASSUME NEW r \in Req, NEW t \in Session, ReleaseLock(t), Exits(r, t)
        PROVE  Keeps(s)
    BY <1>1, <2>4 DEF ReleaseLock, Exits
  <2>5. ASSUME NEW r \in Req, NEW t \in Session, CutOff(r), Exits(r, t), lock' = lock
        PROVE  Keeps(s)
    BY <1>1, <2>5 DEF Exits
  <2>6. ASSUME NEW t \in Session, LockExpires(t), ReleaseLock(t), NobodyMoves
        PROVE  Keeps(s)
    BY <1>1, <2>6 DEF ReleaseLock, NobodyMoves
  <2> QED BY <1>1, <2>1, <2>2, <2>3, <2>4, <2>5, <2>6 DEF LockStep
<1>2. TypeInv /\ [Next]_vars => [\A s \in Session : Keeps(s)]_vars
  BY <1>1, EveryLockStep DEF TypeInv, StoreOK
<1> QED BY <1>2, InitType, TypeStep, PTL DEF Spec, HandlersKeepToLock

(* Mutual exclusion alone is not inductive: it needs that whoever is       *)
(* inside has the lock.                                                    *)
LockInv == HoldersHaveLock /\ MutualExclusion

(* While locks do not lapse, a LockStep keeps the invariant: to enter      *)
(* takes a free lock, and whoever frees one is its only holder.            *)
LEMMA LockInvKept ==
  ASSUME lock \in [Session -> BOOLEAN], LockInv, LockStep, "lapse" \notin Faults
  PROVE  LockInv'
<1>1. CASE NobodyMoves /\ lock' = lock
  BY <1>1 DEF NobodyMoves, LockInv, HoldersHaveLock, MutualExclusion
<1>2. ASSUME NEW r \in Req, NEW s \in Session, AcquireLock(s), Enters(r, s)
      PROVE  LockInv'
  BY <1>2 DEF AcquireLock, LockIsFree, Enters, LockInv, HoldersHaveLock,
              MutualExclusion
<1>3. ASSUME NEW s \in Session, AcquireLock(s), NobodyMoves
      PROVE  LockInv'
  BY <1>3 DEF AcquireLock, NobodyMoves, LockInv, HoldersHaveLock, MutualExclusion
<1>4. ASSUME NEW r \in Req, NEW s \in Session, Exits(r, s),
             ReleaseLock(s) \/ lock' = lock
      PROVE  LockInv'
  BY <1>4 DEF ReleaseLock, Exits, LockInv, HoldersHaveLock, MutualExclusion
<1>5. ASSUME NEW s \in Session, NobodyMoves, ReleaseLock(s),
             \A x \in Req : ~Holds(x, s)
      PROVE  LockInv'
  BY <1>5 DEF ReleaseLock, NobodyMoves, LockInv, HoldersHaveLock, MutualExclusion
<1> QED BY <1>1, <1>2, <1>3, <1>4, <1>5 DEF LockStep

(* Between acquire_lock and release_lock of one session there is at most   *)
(* one request, for any number of requests and sessions, and whatever dies *)
(* or fails, provided no critical section outlives the lock's TTL.         *)
THEOREM LocksExclude ==
  ASSUME "lapse" \notin Faults
  PROVE  Spec => []MutualExclusion
<1>1. Init => TypeInv /\ LockInv
  BY InitType, NobodyAtFirst DEF LockInv, HoldersHaveLock, MutualExclusion
<1>2. TypeInv /\ LockInv /\ [Next]_vars => (TypeInv /\ LockInv)'
  BY TypeStep, EveryLockStep, LockInvKept DEF TypeInv, StoreOK
<1>3. TypeInv /\ LockInv => MutualExclusion
  BY DEF LockInv
<1> QED BY <1>1, <1>2, <1>3, PTL DEF Spec

(* While no worker dies or stops and Redis answers, a lock that is taken   *)
(* belongs to a request in progress: every path through the handlers,      *)
(* those of their errors included, releases it.                            *)
THEOREM LocksAreReleased ==
  ASSUME ~LeavesLocks
  PROVE  Spec => []NoLeakedLock
<1>1. Init => TypeInv /\ NoLeakedLock
  BY InitType, NobodyAtFirst DEF NoLeakedLock
<1>2. ASSUME TypeInv, NoLeakedLock, LockStep PROVE NoLeakedLock'
  <2>1. lock \in [Session -> BOOLEAN]
    BY <1>2 DEF TypeInv, StoreOK
  <2>2. CASE NobodyMoves /\ lock' = lock
    BY <1>2, <2>2 DEF NobodyMoves, NoLeakedLock
  <2>3. ASSUME NEW r \in Req, NEW s \in Session, AcquireLock(s), Enters(r, s)
        PROVE  NoLeakedLock'
    BY <1>2, <2>1, <2>3 DEF AcquireLock, Enters, NoLeakedLock
  <2>4. ASSUME NEW r \in Req, NEW s \in Session, ReleaseLock(s), Exits(r, s)
        PROVE  NoLeakedLock'
    BY <1>2, <2>1, <2>4 DEF ReleaseLock, Exits, NoLeakedLock
  <2>5. ASSUME NEW s \in Session, ReleaseLock(s), NobodyMoves
        PROVE  NoLeakedLock'
    BY <1>2, <2>1, <2>5 DEF ReleaseLock, NobodyMoves, NoLeakedLock
  <2> QED BY <1>2, <2>2, <2>3, <2>4, <2>5 DEF LockStep
<1>3. TypeInv /\ NoLeakedLock /\ [Next]_vars => (TypeInv /\ NoLeakedLock)'
  BY <1>2, TypeStep, EveryLockStep
<1> QED BY <1>1, <1>3, PTL DEF Spec
=============================================================================
