------------------------------- MODULE MCUpload -------------------------------
(***************************************************************************)
(* Instances of the service for TLC.  Sizes are in MB and the limits on    *)
(* them are the code's own.  The usual file has 8 MB and is sent as a      *)
(* chunk of 5 MB (the minimum) and a last one of 3 MB.                     *)
(***************************************************************************)
EXTENDS UploadProperties, TLC

CONSTANTS r1, r2, s1, s2, t1, t2, f1, c1, c2, u1, u2, u3,
          head,     \* 5 MB
          tail,     \* 3 MB
          virus,    \* 3 MB, with the signature
          empty, huge

MCPayload == {head, tail, virus, empty, huge}

MCSize == (head :> 5) @@ (tail :> 3) @@ (virus :> 3) @@ (empty :> 0)
          @@ (huge :> 51)

MCIndex == {0, 1}
OneIndex == {0}

Sent(i, p) == [index |-> i, data |-> p, checksum |-> p]

OneChunk  == {Sent(0, tail)}
GoodOrBad == {Sent(0, tail), Sent(0, virus)}
TwoChunks == {Sent(0, head), Sent(1, tail)}

(* A file of 10 MB in two chunks of equal size.                            *)
EqualChunks == {Sent(0, head), Sent(1, head)}

(* The two good chunks, an infected last chunk, and a corrupted one.       *)
FewChunks ==
  TwoChunks \cup
  {Sent(1, virus), [index |-> 1, data |-> tail, checksum |-> head]}

(* Every kind of bad PATCH as well: empty, too large, too small, repeated  *)
(* at another index, and one that overshoots the declared size.            *)
ManyChunks ==
  FewChunks \cup {Sent(0, empty), Sent(1, huge), Sent(0, tail), Sent(1, head)}

File1 == [tenant |-> t1, file |-> f1, checksum |-> c1, total |-> 8]

(* A file of one chunk, for the runs with many faults or sessions.         *)
SmallFile == [File1 EXCEPT !.total = 3]

OneFile      == {File1}
OneEvenFile  == {[File1 EXCEPT !.total = 10]}
OneSmallFile == {SmallFile}

(* The same content declared by two tenants.                               *)
TwoTenants   == {SmallFile, [SmallFile EXCEPT !.tenant = t2]}

Symmetric == Permutations(Req)

(* Multipart ids, session ids and tenants are opaque: they may be          *)
(* exchanged too, where the instance does not tell them apart.             *)
SymmetricUploads == Symmetric \cup Permutations(UploadId)
SymmetricAll ==
  SymmetricUploads \cup Permutations(Session) \cup Permutations(Tenant)
=============================================================================
