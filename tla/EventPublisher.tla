--------------------------- MODULE EventPublisher ---------------------------
(***************************************************************************)
(* NatsEventPublisher.publish_file_upload_completed: publish, flush, retry *)
(* with a backoff, over a NATS client that reconnects in the background.   *)
(* The client is external and taken at its word: publish only buffers a    *)
(* message, also while the client reconnects; flush returns once the       *)
(* broker has what was published before it; when either raises, the copy   *)
(* may be sent later; a connection that breaks may lose what it was        *)
(* sending, oldest first.                                                  *)
(***************************************************************************)
EXTENDS Integers

CONSTANT MaxRetries   \* max_retries, 3 in the code

ASSUME RetriesAssumption == MaxRetries \in Nat \ {0}

VARIABLES
  pc,         \* "publish", "flush", "backoff", "returned" or "raised"
  attempt,    \* failed attempts so far
  link,       \* the client is "connected", "reconnecting" or "closed"
  buffered,   \* copies of the event in the client's buffer
  delivered,  \* copies the broker has
  latest      \* what became of the copy published last

vars == <<pc, attempt, link, buffered, delivered, latest>>

Links == {"connected", "reconnecting", "closed"}

(* The shapes of the state; the attempts counted never pass max_retries.   *)
TypeOK ==
  /\ pc \in {"publish", "flush", "backoff", "returned", "raised"}
  /\ attempt \in 0 .. MaxRetries
  /\ link \in Links
  /\ buffered \in Nat /\ delivered \in Nat
  /\ latest \in {"none", "kept", "lost"}

Init ==
  /\ pc = "publish" /\ attempt = 0 /\ link \in Links
  /\ buffered = 0 /\ delivered = 0 /\ latest = "none"

-----------------------------------------------------------------------------
NotCounted ==   \* mutant: attempt += 1 is missing
  UNCHANGED attempt /\ pc' = "backoff"

OneTooMany ==   \* mutant: > for >=
  /\ attempt' = attempt + 1
  /\ pc' = IF attempt' > MaxRetries THEN "raised" ELSE "backoff"

(* The except clause: count the attempt, then give up or back off.         *)
AttemptFails ==
  /\ attempt' = attempt + 1
  /\ pc' = IF attempt' >= MaxRetries THEN "raised" ELSE "backoff"

IsOpen == link \in {"connected", "reconnecting"}

Buffer ==
  /\ IsOpen
  /\ buffered' = buffered + 1 /\ latest' = "kept"
  /\ pc' = "flush"
  /\ UNCHANGED attempt

PublishOrWait ==   \* mutant: waits for a connection instead of raising
  pc = "publish" /\ Buffer /\ UNCHANGED <<link, delivered>>

(* The connection check and nc.publish; either may raise.                  *)
Publish ==
  /\ pc = "publish"
  /\ Buffer \/ (AttemptFails /\ UNCHANGED <<buffered, latest>>)
  /\ UNCHANGED <<link, delivered>>

FlushUnchecked ==   \* mutant: returns without waiting for the broker
  /\ pc = "flush" /\ pc' = "returned"
  /\ UNCHANGED <<attempt, link, buffered, delivered, latest>>

Flush ==
  /\ pc = "flush"
  /\ \/ /\ link = "connected" /\ latest = "kept"
        /\ delivered' = delivered + buffered /\ buffered' = 0
        /\ pc' = "returned" /\ UNCHANGED attempt
     \/ AttemptFails /\ UNCHANGED <<buffered, delivered>>
  /\ UNCHANGED <<link, latest>>

WakeUp ==
  /\ pc = "backoff"
  /\ pc' = "publish"
  /\ UNCHANGED <<attempt, link, buffered, delivered, latest>>

Step == Publish \/ Flush \/ WakeUp

-----------------------------------------------------------------------------
(* The client's own tasks.                                                 *)
Transmit ==
  /\ link = "connected" /\ buffered > 0
  /\ buffered' = buffered - 1 /\ delivered' = delivered + 1
  /\ UNCHANGED <<pc, attempt, link, latest>>

LinkChanges ==
  /\ \/ link = "connected" /\ link' \in {"reconnecting", "closed"}
     \/ link = "reconnecting" /\ link' \in {"connected", "closed"}
  /\ \E n \in 0 .. buffered :
       /\ buffered' = buffered - n
       /\ latest' = IF n > 0 /\ n = buffered THEN "lost" ELSE latest
  /\ UNCHANGED <<pc, attempt, delivered>>

Next == Step \/ Transmit \/ LinkChanges

(* Every await returns or raises: flush has a timeout of its own.          *)
Spec == Init /\ [][Next]_vars /\ WF_vars(Step)

-----------------------------------------------------------------------------
(* Retrying does not break what the caller relies on: success only with a  *)
(* copy at the broker, and never more copies than attempts.                *)
Contract ==
  INSTANCE PublishContract WITH
    MaxCopies <- MaxRetries,
    outcome   <- IF pc \in {"returned", "raised"} THEN pc ELSE "pending",
    copies    <- delivered

ImplementsContract == Contract!Spec

(* Copies are bounded by the attempts made, those still buffered included: *)
(* a consumer sees at most one event per attempt, and one more attempt     *)
(* only while the last one is being flushed.                               *)
OneCopyPerAttempt ==
  buffered + delivered <= attempt + (IF pc \in {"flush", "returned"} THEN 1 ELSE 0)

(* The call ends, however the connection behaves.                          *)
PublishEnds == <>(pc \in {"returned", "raised"})
=============================================================================
