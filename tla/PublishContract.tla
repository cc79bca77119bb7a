--------------------------- MODULE PublishContract ---------------------------
(***************************************************************************)
(* What finalize may rely on when it awaits publish_file_upload_completed: *)
(* it returns only if the broker has the event; it may raise although a    *)
(* copy got through or still will; there are at most MaxCopies copies.     *)
(***************************************************************************)
EXTENDS Integers

CONSTANT MaxCopies

VARIABLES outcome, copies

contractVars == <<outcome, copies>>

Init == outcome = "pending" /\ copies = 0

(* A copy reaches the broker, possibly after the call has raised.          *)
Deliver(n) == /\ copies + n <= MaxCopies
              /\ copies' = copies + n

Return == outcome = "pending" /\ outcome' = "returned" /\ copies' > 0

Raise == outcome = "pending" /\ outcome' = "raised"

Next ==
  /\ \E n \in 0 .. MaxCopies : Deliver(n)
  /\ Return \/ Raise \/ UNCHANGED outcome

Spec == Init /\ [][Next]_contractVars
=============================================================================
