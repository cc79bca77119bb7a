------------------------------- MODULE MCResume -------------------------------
(***************************************************************************)
(* Instances of a client with the service for TLC: a file of 8 MB in two   *)
(* chunks, clean or with an infected last chunk.                           *)
(***************************************************************************)
EXTENDS ResumableClient, TLC

CONSTANTS r1, r2, s1, s2, t1, f1, c1, c2, u1, u2, u3,
          head,     \* 5 MB
          tail,     \* 3 MB
          virus     \* 3 MB, with the signature

MCPayload == {head, tail, virus}
MCSize    == (head :> 5) @@ (tail :> 3) @@ (virus :> 3)
MCIndex   == {0, 1}

Clean    == [tenant |-> t1, file |-> f1, checksum |-> c1, total |-> 8]
Tainted  == [Clean EXCEPT !.checksum = c2]
Declared == {Clean, Tainted}

MCRequests == {Part(0, head), Part(1, tail), Part(1, virus)}

CleanOrTainted == {[decl |-> Clean, chunks |-> <<head, tail>>],
                   [decl |-> Tainted, chunks |-> <<head, virus>>]}

(* The clean file only.                                                    *)
OneClean == {[decl |-> Clean, chunks |-> <<head, tail>>]}

(* A file of two equal chunks.                                             *)
EvenFile     == [Clean EXCEPT !.total = 10]
OneEvenFile  == {EvenFile}
EvenRequests == {Part(0, head), Part(1, head)}
Even         == {[decl |-> EvenFile, chunks |-> <<head, head>>]}
=============================================================================
