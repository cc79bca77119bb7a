------------------------- MODULE EventPublisherProofs -------------------------
(***************************************************************************)
(* For any number of retries: the publisher counts its copies as it claims *)
(* and implements the contract that finalize relies on.                    *)
(***************************************************************************)
EXTENDS EventPublisher, TLAPS

(* The call is given up exactly when its attempts are used up.             *)
AttemptsLeft == pc # "raised" => attempt < MaxRetries

(* A copy that was published and not lost is in the buffer or at the broker.             *)
KeptIsSomewhere == latest = "kept" => buffered + delivered > 0

PublisherInv ==
  TypeOK /\ OneCopyPerAttempt /\ AttemptsLeft /\ KeptIsSomewhere

(* The invariant holds initially: nothing was published or attempted.      *)
LEMMA PublisherInit == Init => PublisherInv
  BY RetriesAssumption
  DEF Init, PublisherInv, TypeOK, OneCopyPerAttempt, AttemptsLeft,
      KeptIsSomewhere, Links

(* Every step of the publisher or of the client's own tasks keeps it.      *)
LEMMA PublisherStep == PublisherInv /\ [Next]_vars => PublisherInv'
<1> SUFFICES ASSUME PublisherInv, [Next]_vars PROVE PublisherInv'
  OBVIOUS
<1> USE RetriesAssumption
        DEF PublisherInv, TypeOK, OneCopyPerAttempt, AttemptsLeft,
            KeptIsSomewhere, Links
<1>1. CASE Publish
  BY <1>1 DEF Publish, Buffer, AttemptFails, IsOpen
<1>2. CASE Flush
  BY <1>2 DEF Flush, AttemptFails
<1>3. CASE WakeUp
  BY <1>3 DEF WakeUp
<1>4. CASE Transmit
  BY <1>4 DEF Transmit
<1>5. CASE LinkChanges
  BY <1>5 DEF LinkChanges
<1>6. CASE UNCHANGED vars
  BY <1>6 DEF vars
<1> QED
  BY <1>1, <1>2, <1>3, <1>4, <1>5, <1>6 DEF Next, Step

(* So it is an invariant of the publisher.                                 *)
LEMMA PublisherInvariant == Spec => []PublisherInv
  BY PublisherInit, PublisherStep, PTL DEF Spec

(* The publisher's counters and states are what TypeOK says: in particular *)
(* it never makes more than max_retries attempts.                          *)
THEOREM PublisherTypes == Spec => []TypeOK
<1>1. PublisherInv => TypeOK
  BY DEF PublisherInv
<1> QED
  BY <1>1, PublisherInvariant, PTL

(* Copies of the event never outnumber the attempts made, the one being    *)
(* flushed included, for any number of retries and any connection.         *)
THEOREM CopiesBounded == Spec => []OneCopyPerAttempt
<1>1. PublisherInv => OneCopyPerAttempt
  BY DEF PublisherInv
<1> QED
  BY <1>1, PublisherInvariant, PTL

(* A publisher that has done nothing satisfies the contract's Init.        *)
LEMMA ContractInit == Init => Contract!Init
  BY DEF Init, Contract!Init

(* Every step is one the contract allows: success only with a copy at the  *)
(* broker, a copy delivered only while there is room for it.               *)
LEMMA ContractStep ==
  PublisherInv /\ [Next]_vars => [Contract!Next]_(Contract!contractVars)
<1> SUFFICES ASSUME PublisherInv, Next, PublisherInv'
             PROVE  Contract!Next
  BY PublisherStep DEF vars, Contract!contractVars
<1> DEFINE Outcome == IF pc \in {"returned", "raised"} THEN pc ELSE "pending"
           Room(n) == n \in 0 .. MaxRetries /\ delivered + n <= MaxRetries
<1>1. delivered \in Nat /\ buffered \in Nat /\ MaxRetries \in Nat
  BY RetriesAssumption DEF PublisherInv, TypeOK
<1>2. Room(0) /\ (buffered > 0 => Room(1))
      /\ (pc = "flush" => Room(buffered))
  BY RetriesAssumption
  DEF PublisherInv, TypeOK, OneCopyPerAttempt, AttemptsLeft
<1> HIDE DEF Room
<1>3. ASSUME NEW n, Room(n), delivered' = delivered + n,
             \/ Outcome = "pending" /\ Outcome' = "returned" /\ delivered' > 0
             \/ Outcome = "pending" /\ Outcome' = "raised"
             \/ UNCHANGED Outcome
      PROVE  Contract!Next
  BY <1>3
  DEF Contract!Next, Contract!Deliver, Contract!Return, Contract!Raise, Room
<1>4. CASE Publish
  <2>1. delivered' = delivered + 0
    BY <1>1, <1>4 DEF Publish
  <2>2. (Outcome = "pending" /\ Outcome' = "raised") \/ UNCHANGED Outcome
    BY <1>4 DEF Publish, Buffer, AttemptFails
  <2> QED
    BY <1>2, <1>3, <2>1, <2>2
<1>5. CASE Flush
  <2>1. CASE AttemptFails /\ UNCHANGED <<buffered, delivered>>
    <3>1. delivered' = delivered + 0
      BY <1>1, <2>1
    <3>2. (Outcome = "pending" /\ Outcome' = "raised") \/ UNCHANGED Outcome
      BY <1>5, <2>1 DEF Flush, AttemptFails
    <3> QED
      BY <1>2, <1>3, <3>1, <3>2
  <2>2. CASE latest = "kept" /\ delivered' = delivered + buffered /\ pc' = "returned"
    <3>1. Outcome = "pending" /\ Outcome' = "returned" /\ pc = "flush"
      BY <1>5, <2>2 DEF Flush
    <3>2. delivered' > 0
      BY <1>1, <2>2 DEF PublisherInv, KeptIsSomewhere
    <3> QED
      BY <1>2, <1>3, <2>2, <3>1, <3>2
  <2> QED
    BY <1>5, <2>1, <2>2 DEF Flush
<1>6. CASE WakeUp \/ LinkChanges
  <2>1. delivered' = delivered + 0
    BY <1>1, <1>6 DEF WakeUp, LinkChanges
  <2>2. UNCHANGED Outcome
    BY <1>6 DEF WakeUp, LinkChanges
  <2> QED
    BY <1>2, <1>3, <2>1, <2>2
<1>7. CASE Transmit
  <2>1. delivered' = delivered + 1 /\ UNCHANGED Outcome /\ buffered > 0
    BY <1>7 DEF Transmit
  <2> QED
    BY <1>2, <1>3, <2>1
<1> QED
  BY <1>4, <1>5, <1>6, <1>7 DEF Next, Step

(* Success means the broker has the event, whatever the connection did,    *)
(* and a failure leaves at most MaxRetries copies behind.                  *)
THEOREM PublisherRefines == Spec => ImplementsContract
  BY PublisherInvariant, ContractInit, ContractStep, PTL
  DEF Spec, ImplementsContract, Contract!Spec
=============================================================================
