------------------------------ MODULE SessionLock ------------------------------
(***************************************************************************)
(* What lock:upload:{id} is to the handlers that use it: a test-and-set    *)
(* key with a TTL.  It excludes while no owner outlives the TTL; it never  *)
(* admits anyone while the key is there; nobody waits for it; and whoever  *)
(* releases deletes the key, even if it is somebody else's by then.  If    *)
(* the TTL may end at any time, a key that is deleted by mistake looks     *)
(* like one that expired; with Lapses = FALSE it does not.                 *)
(***************************************************************************)
CONSTANTS Owner, Name,
          Lapses,   \* TRUE if the TTL may end while an owner is inside
          Forsakes  \* TRUE if owners may die, and calls go unanswered

VARIABLES key,     \* key[s]: the key exists
          inside   \* <<o, s>> such that o believes it owns s

lockVars == <<key, inside>>

Init == key = [s \in Name |-> FALSE] /\ inside = {}

Set(s)   == ~key[s] /\ key' = [key EXCEPT ![s] = TRUE]
Clear(s) == key' = [key EXCEPT ![s] = FALSE]

Acquire(o, s) == Set(s) /\ inside' = inside \cup {<<o, s>>}

(* The key was set, but the answer did not reach the one who asked.        *)
AcquireUnheard(s) == Forsakes /\ Set(s) /\ UNCHANGED inside

Release(o, s) ==
  /\ <<o, s>> \in inside
  /\ Clear(s)
  /\ inside' = inside \ {<<o, s>>}

(* The owner is gone, or its DEL failed.                                   *)
Abandon(o, s) ==
  /\ Forsakes
  /\ <<o, s>> \in inside
  /\ inside' = inside \ {<<o, s>>}
  /\ UNCHANGED key

Expire(s) ==
  /\ key[s]
  /\ Lapses \/ \A o \in Owner : <<o, s>> \notin inside
  /\ Clear(s) /\ UNCHANGED inside

Next ==
  \E s \in Name :
    \/ \E o \in Owner : Acquire(o, s) \/ Release(o, s) \/ Abandon(o, s)
    \/ AcquireUnheard(s) \/ Expire(s)

Spec == Init /\ [][Next]_lockVars
=============================================================================
