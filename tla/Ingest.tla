-------------------------------- MODULE Ingest --------------------------------
(***************************************************************************)
(* What the service promises about a finished upload, without requests,    *)
(* sessions, chunks or locks: an object is stored, then its file is        *)
(* registered for deduplication, then downstream is told, and only then is *)
(* a client.  Nothing of it is ever taken back.                            *)
(***************************************************************************)
EXTENDS UploadSession

CONSTANT None

VARIABLES stored,        \* keys that have an object
          registered,    \* dedup key -> object key
          announced,     \* events delivered
          finalized,     \* declarations whose finalize was acknowledged
          deduplicated   \* declarations answered by deduplication

ingestVars == <<stored, registered, announced, finalized, deduplicated>>

Init ==
  /\ stored = {}
  /\ registered = [k \in Tenant \X Checksum |-> None]
  /\ announced = {} /\ finalized = {} /\ deduplicated = {}

Store(k) ==
  /\ stored' = stored \cup {k}
  /\ UNCHANGED <<registered, announced, finalized, deduplicated>>

Register(d) ==
  /\ ObjectKey(d) \in stored
  /\ registered' = [registered EXCEPT ![DedupKey(d)] = ObjectKey(d)]
  /\ UNCHANGED <<stored, announced, finalized, deduplicated>>

Announce(d) ==
  /\ registered[DedupKey(d)] # None
  /\ announced' = announced \cup {Event(d)}
  /\ UNCHANGED <<stored, registered, finalized, deduplicated>>

Finalize(d) ==
  /\ Event(d) \in announced
  /\ finalized' = finalized \cup {d}
  /\ UNCHANGED <<stored, registered, announced, deduplicated>>

Deduplicate(d) ==
  /\ registered[DedupKey(d)] # None
  /\ deduplicated' = deduplicated \cup {d}
  /\ UNCHANGED <<stored, registered, announced, finalized>>

Next ==
  \/ \E k \in Key : Store(k)
  \/ \E d \in Declarations :
       Register(d) \/ Announce(d) \/ Finalize(d) \/ Deduplicate(d)

Spec == Init /\ [][Next]_ingestVars
=============================================================================
