------------------------------ MODULE Responses ------------------------------
(***************************************************************************)
(* The exceptions a handler can end with and the HTTP status each becomes: *)
(* the except clauses of the upload router, in their order, and for what   *)
(* they let through the handlers registered on the application.  A class   *)
(* is the set of exceptions an except clause for it catches.               *)
(***************************************************************************)
EXTENDS Naturals

ValidationErrors ==
  {"ValidationError", "ChecksumMismatchError", "MalwareDetectedError"}

DomainErrors ==
  ValidationErrors \cup
  {"EntityNotFoundError", "DuplicateEntityError", "LockAcquisitionError"}

(* ApplicationError has a handler that answers 500; ValueError,            *)
(* RuntimeError and what the clients of Redis, S3 and NATS raise have      *)
(* none, for which the server answers 500 too.                             *)
GlobalStatus(e) ==
  IF e = "EntityNotFoundError" THEN 404
  ELSE IF e \in DomainErrors THEN 422
  ELSE 500

ServerError == GlobalStatus("Exception")

BadRequest == ValidationErrors \cup {"LockAcquisitionError"}

PatchStatus(e) ==
  IF e = "EntityNotFoundError" THEN 404
  ELSE IF e = "ChecksumMismatchError" THEN 460
  ELSE IF e \in BadRequest THEN 400
  ELSE GlobalStatus(e)

AbortStatus(e) ==
  IF e = "EntityNotFoundError" THEN 404
  ELSE IF e \in BadRequest THEN 400
  ELSE GlobalStatus(e)

(* mutant: the clause for the base class comes first                       *)
ValidationBeforeMalware(e) == AbortStatus(e)

FinalizeStatus(e) ==
  IF e = "EntityNotFoundError" THEN 404
  ELSE IF e = "MalwareDetectedError" THEN 422
  ELSE IF e \in BadRequest THEN 400
  ELSE GlobalStatus(e)
=============================================================================
