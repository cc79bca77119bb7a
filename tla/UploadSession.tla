---------------------------- MODULE UploadSession ----------------------------
(***************************************************************************)
(* The UploadSession entity: the fields a session keeps and the methods    *)
(* that change them, as operators on a value.  A session is the file the   *)
(* client declared (tenant, file id, total size, whole-file checksum: one  *)
(* record, fixed at initiation), the byte offset reached and a status.     *)
(* A method that raises is a guard here; the caller takes the error path.  *)
(***************************************************************************)
EXTENDS Naturals

CONSTANTS Tenant, File, Checksum,
          Declarations   \* the files that clients declare when they initiate

DeclarationType == [tenant : Tenant, file : File, checksum : Checksum,
                    total : Nat \ {0}]

ASSUME DeclarationAssumption == Declarations \subseteq DeclarationType

UploadStatus == {"INITIATED", "UPLOADING", "COMPLETED", "ABORTED", "FAILED"}

UploadSessions == [decl : Declarations, offset : Nat, status : UploadStatus]

NewUploadSession(d) == [decl |-> d, offset |-> 0, status |-> "INITIATED"]

StartsWithin(u, n) == n > 0 /\ u.offset < u.decl.total   \* mutant

(* update_offset raises ValueError unless this holds.                      *)
MayAdvance(u, n) == n > 0 /\ u.offset + n <= u.decl.total

Rewound(u, n) ==     \* mutant: -= for +=
  [u EXCEPT !.offset = @ - n, !.status = "UPLOADING"]
Overwritten(u, n) == \* mutant: = for +=
  [u EXCEPT !.offset = n, !.status = "UPLOADING"]

UpdateOffset(u, n) ==
  [u EXCEPT !.offset = @ + n,
            !.status = IF @ = "INITIATED" THEN "UPLOADING" ELSE @]

Completed(u) == [u EXCEPT !.status = "COMPLETED"]
Aborted(u)   == [u EXCEPT !.status = "ABORTED"]
Failed(u)    == [u EXCEPT !.status = "FAILED"]

(* mutant: one deduplication key for all tenants                           *)
SharedKey(d) == <<CHOOSE t \in Tenant : TRUE, d.checksum>>

(* The object key on S3, the deduplication key in Redis (the tenant's own) *)
(* and the event, all functions of what was declared.                      *)
Key          == Tenant \X File
ObjectKey(d) == <<d.tenant, d.file>>
DedupKey(d)  == <<d.tenant, d.checksum>>
Event(d)     == [decl |-> d, uri |-> ObjectKey(d)]

AllBytesUploaded(u) == u.offset = u.decl.total
=============================================================================
