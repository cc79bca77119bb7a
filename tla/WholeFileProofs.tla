--------------------------- MODULE WholeFileProofs ---------------------------
(***************************************************************************)
(* A client that is done has its whole file behind its key, and is told    *)
(* which of its chunks the scanner found, for any number of requests,      *)
(* sessions, chunks and faults, as long as no lock lapses, no session or   *)
(* chunk key expires, the client starts again when a PATCH timed out, and  *)
(* it sends no empty chunk.                                                *)
(*                                                                         *)
(* The argument: only the client's own data are stored (OwnData); requests *)
(* are where their operation can be, and the one it waits for is the one   *)
(* it sent (Exchange); an id it is given is nobody else's (IdsAreNew);     *)
(* what it takes up next agrees with the offset and the chunks stored, and *)
(* once it finalizes nothing is sent to that session any more (Progress);  *)
(* so what a finalize sends to S3 is all of the file or nothing            *)
(* (Assembled).                                                            *)
(***************************************************************************)
EXTENDS ResumableClientProofs, FinalizeProofs, WellFoundedInduction

-----------------------------------------------------------------------------
(* A set of natural numbers with 0 and, with each of its members, the next *)
(* one: all of them.  Otherwise the smallest missing one would have a      *)
(* predecessor.                                                            *)
LEMMA FromZero ==
  ASSUME NEW T, 0 \in T, \A n \in Nat : n \in T => n + 1 \in T
  PROVE  \A n \in Nat : n \in T
<1> SUFFICES ASSUME Nat \ T # {} PROVE FALSE
  OBVIOUS
<1> DEFINE R == OpToRel(<, Nat)
<1>1. \A x, y \in Nat : <<y, x>> \in R <=> y < x
  BY DEF OpToRel
<1>2. IsWellFoundedOn(R, Nat)
  BY NatLessThanWellFounded
<1> HIDE DEF R
<1>3. PICK x \in Nat \ T : \A y \in Nat \ T : <<y, x>> \notin R
  BY <1>2, WFMin
<1>4. x # 0 /\ x - 1 \in Nat /\ x - 1 < x /\ x - 1 + 1 = x
  OBVIOUS
<1>5. x - 1 \notin T
  BY <1>4
<1>6. <<x - 1, x>> \notin R
  BY <1>3, <1>4, <1>5
<1> QED BY <1>1, <1>4, <1>6

-----------------------------------------------------------------------------
(* The running sums of the sizes of parts.                                 *)
Sums(g, parts) ==
  g = [n \in 0 .. Len(parts) |->
         IF n = 0 THEN 0 ELSE g[n - 1] + Size[parts[n]]]

LEMMA SumsExist ==
  ASSUME NEW parts \in Seq(Payload)
  PROVE  \E g : Sums(g, parts)
<1> DEFINE Upto(g, m) ==
             g = [n \in 0 .. m |-> IF n = 0 THEN 0 ELSE g[n - 1] + Size[parts[n]]]
           T == {m \in Nat : \E g : Upto(g, m)}
<1>1. 0 \in T
  <2> DEFINE g == [n \in 0 .. 0 |-> 0]
  <2>1. Upto(g, 0)
    OBVIOUS
  <2> HIDE DEF g
  <2> QED BY <2>1
<1>2. ASSUME NEW m \in Nat, m \in T PROVE m + 1 \in T
  <2>1. PICK g : Upto(g, m)
    BY <1>2
  <2> DEFINE more == g[m] + Size[parts[m + 1]]
             h == [n \in 0 .. m + 1 |-> IF n = m + 1 THEN more ELSE g[n]]
  <2>2. /\ \A n \in 0 .. m : h[n] = g[n] /\ h[m + 1] = more
        /\ \A n \in 0 .. m : g[n] = IF n = 0 THEN 0 ELSE g[n - 1] + Size[parts[n]]
    BY <2>1
  <2>4. h = [n \in 0 .. m + 1 |-> h[n]]
    OBVIOUS
  <2> HIDE DEF h
  <2>3. ASSUME NEW n \in 0 .. m + 1
        PROVE  h[n] = IF n = 0 THEN 0 ELSE h[n - 1] + Size[parts[n]]
    <3>1. CASE n = m + 1
      <4>1. n # 0 /\ n - 1 = m /\ m \in 0 .. m
        BY <3>1
      <4> QED BY <2>2, <3>1, <4>1
    <3>2. CASE n = 0
      BY <2>2, <3>2
    <3>3. CASE n \in 1 .. m
      <4>1. n # 0 /\ n \in 0 .. m /\ n - 1 \in 0 .. m
        BY <3>3
      <4> QED BY <2>2, <4>1
    <3> QED BY <3>1, <3>2, <3>3
  <2>5. Upto(h, m + 1)
    BY <2>3, <2>4
  <2> QED BY <2>5
<1> HIDE DEF T
<1>3. Len(parts) \in T
  BY <1>1, <1>2, FromZero
<1> QED BY <1>3 DEF T, Sums

(* TotalSize is the last of them.                                          *)
LEMMA TotalIsSum ==
  ASSUME NEW parts \in Seq(Payload)
  PROVE  \E g : Sums(g, parts) /\ TotalSize(parts) = g[Len(parts)]
<1> DEFINE sum == CHOOSE g : Sums(g, parts)
<1>1. Sums(sum, parts)
  BY SumsExist
<1>2. TotalSize(parts) = sum[Len(parts)]
  BY DEF TotalSize, Sums
<1> QED BY <1>1, <1>2

(* Sequences that begin alike have the same first sums.                    *)
LEMMA SumsAgree ==
  ASSUME NEW p \in Seq(Payload), NEW q \in Seq(Payload), NEW g, NEW h,
         Sums(g, p), Sums(h, q), Len(q) <= Len(p),
         \A i \in 1 .. Len(q) : q[i] = p[i]
  PROVE  h[Len(q)] = g[Len(q)]
<1> DEFINE T == {n \in Nat : n <= Len(q) => h[n] = g[n]}
<1>1. 0 \in T
  BY DEF Sums
<1>2. ASSUME NEW n \in Nat, n \in T PROVE n + 1 \in T
  <2> SUFFICES ASSUME n + 1 <= Len(q) PROVE h[n + 1] = g[n + 1]
    OBVIOUS
  <2>1. n + 1 \in 1 .. Len(q) /\ n + 1 \in 0 .. Len(p) /\ n + 1 # 0 /\ n + 1 - 1 = n
    OBVIOUS
  <2>2. h[n + 1] = h[n] + Size[q[n + 1]] /\ g[n + 1] = g[n] + Size[p[n + 1]]
    BY <2>1 DEF Sums
  <2> QED BY <1>2, <2>1, <2>2
<1> HIDE DEF T
<1>3. Len(q) \in T
  BY <1>1, <1>2, FromZero
<1> QED BY <1>3 DEF T

-----------------------------------------------------------------------------
(* A chunk more adds its size to the offset, and offsets are naturals.     *)
LEMMA OffsetsAdd ==
  ASSUME NEW f \in Files
  PROVE  /\ OffsetOf(f, 0) = 0
         /\ \A n \in 0 .. Len(f.chunks) : OffsetOf(f, n) \in Nat
         /\ \A n \in 0 .. Len(f.chunks) - 1 :
              OffsetOf(f, n + 1) = OffsetOf(f, n) + Size[f.chunks[n + 1]]
<1> DEFINE c == f.chunks
<1>1. c \in Seq(Payload) /\ Len(c) \in Nat
  BY ClientAssumption DEF ClientFiles
<1>2. PICK g : Sums(g, c)
  BY <1>1, SumsExist
<1>3. ASSUME NEW n \in 0 .. Len(c) PROVE OffsetOf(f, n) = g[n]
  <2> DEFINE q == SubSeq(c, 1, n)
  <2>1. q \in Seq(Payload) /\ Len(q) = n /\ \A i \in 1 .. Len(q) : q[i] = c[i]
    BY <1>1
  <2>2. PICK h : Sums(h, q) /\ TotalSize(q) = h[Len(q)]
    BY <2>1, TotalIsSum
  <2>3. OffsetOf(f, n) = h[n]
    BY <2>1, <2>2 DEF OffsetOf
  <2> HIDE DEF q
  <2>4. h[Len(q)] = g[Len(q)]
    BY <1>1, <1>2, <2>1, <2>2, SumsAgree
  <2> QED BY <2>1, <2>3, <2>4
<1> HIDE DEF c
<1>4. g[0] = 0 /\ \A n \in 0 .. Len(c) - 1 : g[n + 1] = g[n] + Size[c[n + 1]]
  BY <1>1, <1>2 DEF Sums
<1>5. \A n \in 0 .. Len(c) - 1 : n + 1 \in 0 .. Len(c) /\ n \in 0 .. Len(c)
                                  /\ Size[c[n + 1]] \in Nat
  BY <1>1, StateAssumption
<1>6. \A n \in 0 .. Len(c) : g[n] \in Nat
  <2> DEFINE T == {n \in Nat : n <= Len(c) => g[n] \in Nat}
  <2>1. 0 \in T
    BY <1>4
  <2>2. ASSUME NEW n \in Nat, n \in T PROVE n + 1 \in T
    <3> SUFFICES ASSUME n + 1 <= Len(c) PROVE g[n + 1] \in Nat
      OBVIOUS
    <3>1. n \in 0 .. Len(c) - 1 /\ g[n] \in Nat
      BY <1>1, <2>2
    <3> DEFINE z == Size[c[n + 1]]
    <3>2. g[n + 1] = g[n] + z /\ z \in Nat
      BY <1>4, <1>5, <3>1
    <3> HIDE DEF z
    <3> QED BY <3>1, <3>2
  <2> HIDE DEF T
  <2>3. \A n \in Nat : n \in T
    BY <2>1, <2>2, FromZero
  <2> QED BY <1>1, <2>3 DEF T
<1>7. OffsetOf(f, 0) = 0 /\ \A n \in 0 .. Len(c) : OffsetOf(f, n) \in Nat
  BY <1>1, <1>3, <1>4, <1>6
<1>8. \A n \in 0 .. Len(c) - 1 : OffsetOf(f, n + 1) = OffsetOf(f, n) + Size[c[n + 1]]
  BY <1>3, <1>4, <1>5
<1> QED BY <1>7, <1>8 DEF c

(* No chunk of a file is empty.                                            *)
NoEmptyChunk ==
  \A f \in Files : \A i \in 1 .. Len(f.chunks) : Size[f.chunks[i]] > 0

(* Then an offset tells how many chunks are behind it.                     *)
LEMMA OffsetsDiffer ==
  ASSUME NoEmptyChunk, NEW f \in Files, NEW m \in 0 .. Len(f.chunks),
         NEW n \in 0 .. Len(f.chunks), OffsetOf(f, m) = OffsetOf(f, n)
  PROVE  m = n
<1> DEFINE N == Len(f.chunks)
           o(k) == OffsetOf(f, k)
<1>1. N \in Nat
  BY ClientAssumption DEF ClientFiles
<1>2. \A k \in 0 .. N - 1 : o(k + 1) = o(k) + Size[f.chunks[k + 1]]
  BY OffsetsAdd
<1>3. \A k \in 0 .. N : o(k) \in Nat
  BY OffsetsAdd
<1>4. \A k \in 0 .. N - 1 :
        k + 1 \in 0 .. N /\ k \in 0 .. N /\ k + 1 \in 1 .. N
        /\ Size[f.chunks[k + 1]] \in Nat /\ Size[f.chunks[k + 1]] > 0
  BY <1>1, ClientAssumption, StateAssumption DEF ClientFiles, NoEmptyChunk
<1> HIDE DEF o
<1>5. ASSUME NEW k \in 0 .. N - 1 PROVE o(k) < o(k + 1)
  <2> DEFINE z == Size[f.chunks[k + 1]]
  <2>1. o(k + 1) = o(k) + z /\ z \in Nat /\ z > 0 /\ o(k) \in Nat
    BY <1>2, <1>3, <1>4
  <2> HIDE DEF z
  <2> QED BY <2>1
<1> HIDE DEF N
<1>6. \A d \in Nat : \A k \in 0 .. N : k + d + 1 <= N => o(k) < o(k + d + 1)
  <2> DEFINE T == {d \in Nat : \A k \in 0 .. N : k + d + 1 <= N => o(k) < o(k + d + 1)}
  <2>1. 0 \in T
    BY <1>1, <1>5
  <2>2. ASSUME NEW d \in Nat, d \in T PROVE d + 1 \in T
    <3> SUFFICES ASSUME NEW k \in 0 .. N, k + (d + 1) + 1 <= N
                 PROVE  o(k) < o(k + (d + 1) + 1)
      OBVIOUS
    <3> DEFINE j == k + d + 1
    <3>1. j \in 0 .. N - 1 /\ j \in 0 .. N /\ j + 1 \in 0 .. N /\ j + 1 = k + (d + 1) + 1
      BY <1>1
    <3>2. o(k) < o(j)
      BY <1>1, <2>2, <3>1
    <3> HIDE DEF j
    <3>3. o(j) < o(j + 1)
      BY <1>5, <3>1
    <3> QED BY <1>3, <3>1, <3>2, <3>3
  <2> HIDE DEF T
  <2>3. \A d \in Nat : d \in T
    BY <2>1, <2>2, FromZero
  <2> QED BY <2>3 DEF T
<1>7. \A j, k \in 0 .. N : j < k => o(j) < o(k)
  <2> SUFFICES ASSUME NEW j \in 0 .. N, NEW k \in 0 .. N, j < k
               PROVE  o(j) < o(k)
    OBVIOUS
  <2>1. k - j - 1 \in Nat /\ j + (k - j - 1) + 1 = k /\ j + (k - j - 1) + 1 <= N
    BY <1>1
  <2> QED BY <1>6, <2>1
<1>8. m \in 0 .. N /\ n \in 0 .. N /\ o(m) = o(n)
  BY DEF N, o
<1>9. ~(m < n) /\ ~(n < m)
  BY <1>3, <1>7, <1>8
<1> QED BY <1>1, <1>8, <1>9

-----------------------------------------------------------------------------
(* The labels only a finalize reaches.                                     *)
PcFinalize == {"final_lock", "s3_initiate", "fail_save"}
              \cup PcScan \cup PcS3 \cup PcCommitted

(* The record of r becomes one at this label, for the same operation on    *)
(* the same session, with this entity and this status.                     *)
Onto(r, label, u, code) ==
  \E q : /\ Becomes(r, q) /\ q.pc = label /\ q.snap = u /\ q.status = code
         /\ q.op = req[r].op /\ q.on = req[r].on
         /\ label \in PcPatch => q.arg = req[r].arg

(* The operators by which a handler goes on.                               *)
LEMMA OntoForms ==
  ASSUME ReqOK, NEW r \in Req
  PROVE  LET u == req[r].snap
             n == req[r].status
         IN /\ \A label : Go(r, label) => Onto(r, label, u, n)
            /\ \A label, v : GoWith(r, label, v) => Onto(r, label, v, n)
            /\ \A code : Leave(r, code) => Onto(r, "release", u, code)
            /\ \A code, v : Conclude(r, code, v) => Onto(r, "purge_scan", v, code)
            /\ \A code : Answer(r, code) => Onto(r, "reply", u, code)
<1>1. req[r] \in Requests
  BY DEF ReqOK
<1>2. ASSUME NEW label, Go(r, label)
      PROVE  Onto(r, label, req[r].snap, req[r].status)
  <2> DEFINE q == [req[r] EXCEPT !.pc = label]
  <2>1. /\ q.pc = label /\ q.snap = req[r].snap /\ q.status = req[r].status
        /\ q.op = req[r].op /\ q.on = req[r].on /\ q.arg = req[r].arg
    BY <1>1 DEF Requests
  <2>2. Becomes(r, q)
    BY <1>2 DEF Go
  <2> HIDE DEF q
  <2> QED BY <2>1, <2>2 DEF Onto
<1>3. ASSUME NEW label, NEW v, GoWith(r, label, v)
      PROVE  Onto(r, label, v, req[r].status)
  <2> DEFINE q == [req[r] EXCEPT !.pc = label, !.snap = v]
  <2>1. /\ q.pc = label /\ q.snap = v /\ q.status = req[r].status
        /\ q.op = req[r].op /\ q.on = req[r].on /\ q.arg = req[r].arg
    BY <1>1 DEF Requests
  <2>2. Becomes(r, q)
    BY <1>3 DEF GoWith
  <2> HIDE DEF q
  <2> QED BY <2>1, <2>2 DEF Onto
<1>4. ASSUME NEW code, Leave(r, code) PROVE Onto(r, "release", req[r].snap, code)
  <2> DEFINE q == [req[r] EXCEPT !.pc = "release", !.status = code]
  <2>1. /\ q.pc = "release" /\ q.snap = req[r].snap /\ q.status = code
        /\ q.op = req[r].op /\ q.on = req[r].on /\ q.arg = req[r].arg
    BY <1>1 DEF Requests
  <2>2. Becomes(r, q)
    BY <1>4 DEF Leave
  <2> HIDE DEF q
  <2> QED BY <2>1, <2>2 DEF Onto
<1>5. ASSUME NEW code, NEW v, Conclude(r, code, v)
      PROVE  Onto(r, "purge_scan", v, code)
  <2> DEFINE q == [req[r] EXCEPT !.pc = "purge_scan", !.status = code, !.snap = v]
  <2>1. /\ q.pc = "purge_scan" /\ q.snap = v /\ q.status = code
        /\ q.op = req[r].op /\ q.on = req[r].on /\ q.arg = req[r].arg
    BY <1>1 DEF Requests
  <2>2. Becomes(r, q)
    BY <1>5 DEF Conclude
  <2> HIDE DEF q
  <2> QED BY <2>1, <2>2 DEF Onto
<1>6. ASSUME NEW code, Answer(r, code) PROVE Onto(r, "reply", req[r].snap, code)
  <2> DEFINE q == NewRequest("reply", req[r].op, req[r].on, req[r].snap, None, code)
  <2>1. /\ q.pc = "reply" /\ q.snap = req[r].snap /\ q.status = code
        /\ q.op = req[r].op /\ q.on = req[r].on
    BY DEF NewRequest
  <2>2. Becomes(r, q) /\ "reply" \notin PcPatch
    BY <1>6 DEF Answer, PcPatch
  <2> HIDE DEF q
  <2> QED BY <2>1, <2>2 DEF Onto
<1> QED BY <1>2, <1>3, <1>4, <1>5, <1>6

(* ... and the changes that a handler writes out.                          *)
LEMMA OntoNotes ==
  ASSUME ReqOK, NEW r \in Req, NEW x
  PROVE  LET u == req[r].snap
             n == req[r].status
         IN /\ Becomes(r, [req[r] EXCEPT !.pc = "purge_delete", !.found = x])
                 => Onto(r, "purge_delete", u, n)
            /\ Becomes(r, [req[r] EXCEPT !.pc = "s3_part", !.upload = x])
                 => Onto(r, "s3_part", u, n)
            /\ Becomes(r, [req[r] EXCEPT !.seen = x]) => Onto(r, req[r].pc, u, n)
            /\ Becomes(r, [req[r] EXCEPT !.parts = x]) => Onto(r, req[r].pc, u, n)
<1>1. req[r] \in Requests
  BY DEF ReqOK
<1>2. ASSUME NEW q, Becomes(r, q), q.snap = req[r].snap, q.status = req[r].status,
             q.op = req[r].op, q.on = req[r].on, q.arg = req[r].arg
      PROVE  Onto(r, q.pc, req[r].snap, req[r].status)
  BY <1>2 DEF Onto
<1>3. ASSUME Becomes(r, [req[r] EXCEPT !.pc = "purge_delete", !.found = x])
      PROVE  Onto(r, "purge_delete", req[r].snap, req[r].status)
  <2> DEFINE q == [req[r] EXCEPT !.pc = "purge_delete", !.found = x]
  <2>1. /\ q.pc = "purge_delete" /\ q.snap = req[r].snap /\ q.status = req[r].status
        /\ q.op = req[r].op /\ q.on = req[r].on /\ q.arg = req[r].arg
    BY <1>1 DEF Requests
  <2>2. Becomes(r, q)
    BY <1>3
  <2> HIDE DEF q
  <2> QED BY <1>2, <2>1, <2>2
<1>4. ASSUME Becomes(r, [req[r] EXCEPT !.pc = "s3_part", !.upload = x])
      PROVE  Onto(r, "s3_part", req[r].snap, req[r].status)
  <2> DEFINE q == [req[r] EXCEPT !.pc = "s3_part", !.upload = x]
  <2>1. /\ q.pc = "s3_part" /\ q.snap = req[r].snap /\ q.status = req[r].status
        /\ q.op = req[r].op /\ q.on = req[r].on /\ q.arg = req[r].arg
    BY <1>1 DEF Requests
  <2>2. Becomes(r, q)
    BY <1>4
  <2> HIDE DEF q
  <2> QED BY <1>2, <2>1, <2>2
<1>5. ASSUME Becomes(r, [req[r] EXCEPT !.seen = x])
      PROVE  Onto(r, req[r].pc, req[r].snap, req[r].status)
  <2> DEFINE q == [req[r] EXCEPT !.seen = x]
  <2>1. /\ q.pc = req[r].pc /\ q.snap = req[r].snap /\ q.status = req[r].status
        /\ q.op = req[r].op /\ q.on = req[r].on /\ q.arg = req[r].arg
    BY <1>1 DEF Requests
  <2>2. Becomes(r, q)
    BY <1>5
  <2> HIDE DEF q
  <2> QED BY <1>2, <2>1, <2>2
<1>6. ASSUME Becomes(r, [req[r] EXCEPT !.parts = x])
      PROVE  Onto(r, req[r].pc, req[r].snap, req[r].status)
  <2> DEFINE q == [req[r] EXCEPT !.parts = x]
  <2>1. /\ q.pc = req[r].pc /\ q.snap = req[r].snap /\ q.status = req[r].status
        /\ q.op = req[r].op /\ q.on = req[r].on /\ q.arg = req[r].arg
    BY <1>1 DEF Requests
  <2>2. Becomes(r, q)
    BY <1>6
  <2> HIDE DEF q
  <2> QED BY <1>2, <2>1, <2>2
<1> QED BY <1>3, <1>4, <1>5, <1>6

-----------------------------------------------------------------------------
(* Steps of a request, by what they do to the session it is about.         *)
SameEntity(u, v) == u \in UploadSessions /\ u.offset = v.offset /\ u.decl = v.decl

(* Where a handler can go without writing: a PATCH is acknowledged only    *)
(* when it has saved the session, an initiate too.                         *)
Leads(p, label, code) ==
  /\ p.pc \in PcInside
  /\ label \in {"release", "reply", "patch_store"} \cup PcPurging \cup PcFinalize
  /\ label # "final_lock"
  /\ label = "patch_store" => p.pc = "patch_lock"
  /\ label \in PcFinalize => p.pc \in PcFinalize
  /\ label \in PcPurging => p.pc \in PcPurging \cup {"abort_lock", "publish"}
  /\ label = "release" => p.pc # "init_save"
  /\ label \in {"release", "reply"} /\ code = 200 => p.pc = "release" /\ p.status = 200
  /\ p.pc = "init_save" => code # 201

NoWrite(r) ==
  /\ UNCHANGED <<session, chunk>>
  /\ \E label, u, code : /\ Onto(r, label, u, code) /\ SameEntity(u, req[r].snap)
                         /\ Leads(req[r], label, code)

(* It saves the entity it has.                                             *)
Saves(r) ==
  LET u == req[r].snap
  IN /\ SaveSession(req[r].on, u) /\ UNCHANGED chunk
     /\ \/ req[r].pc = "init_save" /\ Onto(r, "reply", u, 201)
        \/ req[r].pc = "patch_save" /\ Onto(r, "release", u, 200)
        \/ req[r].pc = "mal_save" /\ \E code : Onto(r, "purge_scan", u, code)
        \/ req[r].pc = "fail_save" /\ \E code : Onto(r, "release", u, code)

(* It stores a chunk, which the entity may count or not.                   *)
Stores(r) ==
  LET u == req[r].snap
      a == req[r].arg
  IN /\ SaveChunk(req[r].on, a.index, a.data) /\ UNCHANGED session
     /\ req[r].pc = "patch_store"
     /\ \/ \E code : Onto(r, "patch_save", UpdateOffset(u, Size[a.data]), code)
        \/ \E code : Onto(r, "release", u, code) /\ code # 200

Purges(r) ==
  /\ DeleteChunks(req[r].on, req[r].found) /\ UNCHANGED session
  /\ req[r].pc = "purge_delete" /\ Onto(r, "drop", req[r].snap, req[r].status)

Drops(r) ==
  /\ DeleteSession(req[r].on) /\ UNCHANGED chunk
  /\ req[r].pc = "drop" /\ Onto(r, "release", req[r].snap, req[r].status)

(* A handler goes on ...                                                   *)
Advances(r) ==
  /\ UNCHANGED histVars
  /\ NoWrite(r) \/ Saves(r) \/ Stores(r) \/ Purges(r) \/ Drops(r)

(* ... or is over.                                                         *)
Ends(r) == Becomes(r, IdleRequest) /\ UNCHANGED <<session, chunk, object, issued>>

(* The statuses of failures.                                               *)
LEMMA FailureStatuses ==
  /\ \A e : PatchStatus(e) # 200 /\ AbortStatus(e) # 200 /\ FinalizeStatus(e) # 200
  /\ ServerError # 200 /\ ServerError # 201 /\ 204 # 200
BY StatusTypes DEF ServerError, GlobalStatus, DomainErrors, ValidationErrors

(* To go on so.                                                            *)
LEMMA NoWriteForms ==
  ASSUME TypeInv, NEW r \in Req, req[r].pc \in PcInside, UNCHANGED <<session, chunk>>
  PROVE  /\ \A label, code : Onto(r, label, req[r].snap, code)
                               /\ Leads(req[r], label, code) => NoWrite(r)
         /\ \A label : Go(r, label) /\ Leads(req[r], label, req[r].status) => NoWrite(r)
         /\ \A code : Leave(r, code) /\ Leads(req[r], "release", code) => NoWrite(r)
         /\ \A code : Answer(r, code) /\ Leads(req[r], "reply", code) => NoWrite(r)
         /\ \A label : GoWith(r, label, Failed(req[r].snap))
                         /\ Leads(req[r], label, req[r].status) => NoWrite(r)
         /\ \A code : Conclude(r, code, Aborted(req[r].snap))
                        /\ Leads(req[r], "purge_scan", code) => NoWrite(r)
         /\ \A code : Conclude(r, code, Completed(req[r].snap))
                        /\ Leads(req[r], "purge_scan", code) => NoWrite(r)
<1>1. ReqOK /\ req[r].snap \in UploadSessions
  BY InsideFacts DEF TypeInv
<1>2. \A v \in {req[r].snap, Failed(req[r].snap), Aborted(req[r].snap),
                 Completed(req[r].snap)} : SameEntity(v, req[r].snap)
  BY <1>1, EntityTypes DEF SameEntity, Failed, Aborted, Completed, UploadSessions
<1>3. \A label, v, code : Onto(r, label, v, code) /\ SameEntity(v, req[r].snap)
                           /\ Leads(req[r], label, code) => NoWrite(r)
  BY DEF NoWrite
<1>4. /\ \A label : Go(r, label) => Onto(r, label, req[r].snap, req[r].status)
      /\ \A label, v : GoWith(r, label, v) => Onto(r, label, v, req[r].status)
      /\ \A code : Leave(r, code) => Onto(r, "release", req[r].snap, code)
      /\ \A code, v : Conclude(r, code, v) => Onto(r, "purge_scan", v, code)
      /\ \A code : Answer(r, code) => Onto(r, "reply", req[r].snap, code)
  BY <1>1, OntoForms
<1> QED BY <1>2, <1>3, <1>4

(* Labels.                                                                 *)
LEMMA WorkLabels ==
  /\ PcFinalize = {"final_lock", "s3_initiate", "fail_save", "scan", "mal_save",
                   "s3_part", "s3_complete", "s3_abort", "register", "publish"}
  /\ PcPurging = {"purge_scan", "purge_delete", "drop"}
  /\ PcPatch = {"patch_lock", "patch_store", "patch_save"}
BY DEF PcFinalize, PcPurging, PcPatch, PcScan, PcS3, PcCommitted

(* Every step of a handler is one of these.                                *)
LEMMA FinalizeMoves ==
  ASSUME TypeInv, NEW r \in Req, FinalizeStep(r)
  PROVE  Advances(r)
<1> DEFINE p == req[r]
           u == p.snap
<1>1. ReqOK /\ UNCHANGED histVars
  BY DEF TypeInv, FinalizeStep, FinalizeLock, Scan, MalwareSave, S3Initiate, S3Part,
         S3Complete, S3Abort, FailSave, Register, Publish
<1> SUFFICES NoWrite(r) \/ Saves(r)
  BY <1>1 DEF Advances
<1>2. p.pc \in PcFinalize
  BY WorkLabels DEF FinalizeStep, FinalizeLock, Scan, MalwareSave, S3Initiate, S3Part,
         S3Complete, S3Abort, FailSave, Register, Publish, At
<1>3. p.pc \in PcInside
  BY <1>2, WorkLabels, PcTypes
<1>4. ASSUME UNCHANGED <<session, chunk>>
      PROVE  /\ \A label \in {"scan", "s3_initiate", "s3_complete", "register",
                               "s3_abort", "publish"} : Go(r, label) => NoWrite(r)
             /\ \A label \in {"mal_save", "fail_save"} :
                  GoWith(r, label, Failed(u)) => NoWrite(r)
             /\ \A label \in {"scan", "s3_part"} : Onto(r, label, u, p.status) => NoWrite(r)
             /\ \A code : code # 200 /\ Answer(r, code) => NoWrite(r)
  <2>1. /\ \A label : Onto(r, label, u, p.status) /\ Leads(p, label, p.status) => NoWrite(r)
        /\ \A label : Go(r, label) /\ Leads(p, label, p.status) => NoWrite(r)
        /\ \A label : GoWith(r, label, Failed(u)) /\ Leads(p, label, p.status) => NoWrite(r)
        /\ \A code : Answer(r, code) /\ Leads(p, "reply", code) => NoWrite(r)
    BY <1>3, <1>4, NoWriteForms
  <2>2. /\ \A label \in {"scan", "s3_initiate", "mal_save", "s3_part", "register",
                          "s3_abort", "fail_save", "publish", "s3_complete"} :
             Leads(p, label, p.status)
        /\ \A code : code # 200 => Leads(p, "reply", code)
    BY <1>2, <1>3, WorkLabels DEF Leads
  <2> HIDE DEF u, p
  <2> QED BY <2>1, <2>2
<1>5. CASE FinalizeLock(r)
  <2>1. \/ Go(r, "scan")
        \/ \E code : code # 200 /\ Answer(r, code)
    BY <1>5, FailureStatuses DEF FinalizeLock
  <2>2. UNCHANGED <<session, chunk>>
    BY <1>5 DEF FinalizeLock
  <2> QED BY <1>4, <2>1, <2>2
<1>6. CASE Scan(r)
  <2>1. UNCHANGED <<session, chunk>> /\ p.pc = "scan"
    BY <1>6 DEF Scan, redisVars, At
  <2>2. \/ Go(r, "s3_initiate") \/ GoWith(r, "mal_save", Failed(u))
        \/ \E x : Becomes(r, [req[r] EXCEPT !.seen = x])
    BY <1>6 DEF Scan
  <2>3. CASE \E x : Becomes(r, [req[r] EXCEPT !.seen = x])
    <3>1. Onto(r, "scan", u, p.status)
      BY <1>1, <2>1, <2>3, OntoNotes
    <3> QED BY <1>4, <2>1, <3>1
  <2> QED BY <1>4, <2>1, <2>2, <2>3
<1>7. CASE MalwareSave(r)
  <2>1. \E code : Onto(r, "purge_scan", u, code)
    BY <1>1, <1>7, OntoForms DEF MalwareSave
  <2> QED BY <1>7, <2>1 DEF MalwareSave, SaveSnapshotAs, Saves, At
<1>8. CASE S3Initiate(r)
  <2>1. Onto(r, "s3_part", u, p.status)
    BY <1>1, <1>8, OntoNotes DEF S3Initiate
  <2>2. UNCHANGED <<session, chunk>>
    BY <1>8 DEF S3Initiate, redisVars
  <2> QED BY <1>4, <2>1, <2>2
<1>9. CASE S3Part(r)
  <2>1. UNCHANGED <<session, chunk>> /\ p.pc = "s3_part"
    BY <1>9 DEF S3Part, redisVars, At
  <2>2. Go(r, "s3_complete") \/ \E x : UploadPart(r, x)
    BY <1>9 DEF S3Part
  <2>3. ASSUME NEW x, UploadPart(r, x) PROVE NoWrite(r)
    <3> DEFINE y == Append(req[r].parts, x)
    <3>1. Becomes(r, [req[r] EXCEPT !.parts = y])
      BY <2>3 DEF UploadPart
    <3> HIDE DEF y
    <3>2. Onto(r, "s3_part", u, p.status)
      BY <1>1, <2>1, <3>1, OntoNotes
    <3> QED BY <1>4, <2>1, <3>2
  <2> QED BY <1>4, <2>1, <2>2, <2>3
<1>10. CASE S3Complete(r) \/ Register(r) \/ S3Abort(r)
  <2>1. UNCHANGED <<session, chunk>>
    BY <1>10 DEF S3Complete, Register, S3Abort, redisVars
  <2>2. \/ \E label \in {"register", "s3_abort", "publish"} : Go(r, label)
        \/ GoWith(r, "fail_save", Failed(u))
    BY <1>10 DEF S3Complete, Register, S3Abort
  <2> QED BY <1>4, <2>1, <2>2
<1>11. CASE FailSave(r)
  <2>1. \E code : Onto(r, "release", u, code)
    BY <1>1, <1>11, OntoForms DEF FailSave
  <2> QED BY <1>11, <2>1 DEF FailSave, SaveSnapshotAs, Saves, At
<1>12. CASE Publish(r)
  <2>1. UNCHANGED <<session, chunk>> /\ p.pc = "publish"
    BY <1>12 DEF Publish, redisVars, At
  <2>2. PICK code : code = 200 /\ Conclude(r, code, Completed(u))
    BY <1>12 DEF Publish
  <2>3. Leads(p, "purge_scan", code)
    BY <1>3, <2>1, <2>2, WorkLabels DEF Leads
  <2>4. Conclude(r, code, Completed(u)) /\ Leads(p, "purge_scan", code) => NoWrite(r)
    BY <1>3, <2>1, NoWriteForms
  <2> QED BY <2>2, <2>3, <2>4
<1> QED BY <1>5, <1>6, <1>7, <1>8, <1>9, <1>10, <1>11, <1>12 DEF FinalizeStep

(* The cleaning up.                                                        *)
LEMMA CleanUpMoves ==
  ASSUME TypeInv, NEW r \in Req, CleanUpStep(r)
  PROVE  Advances(r)
<1> DEFINE p == req[r]
           u == p.snap
<1>1. ReqOK /\ UNCHANGED histVars
  BY DEF TypeInv, CleanUpStep, PurgeScan, PurgeDelete, Drop, Release
<1> SUFFICES NoWrite(r) \/ Purges(r) \/ Drops(r)
  BY <1>1 DEF Advances
<1>2. CASE PurgeScan(r)
  <2>1. Onto(r, "purge_delete", u, p.status)
    BY <1>1, <1>2, OntoNotes DEF PurgeScan
  <2>2. UNCHANGED <<session, chunk>> /\ p.pc = "purge_scan"
    BY <1>2 DEF PurgeScan, redisVars, At
  <2>3. Leads(p, "purge_delete", p.status) /\ p.pc \in PcInside
    BY <2>2, WorkLabels, PcTypes DEF Leads
  <2> QED BY <2>1, <2>2, <2>3, NoWriteForms
<1>3. CASE PurgeDelete(r)
  BY <1>1, <1>3, OntoForms DEF PurgeDelete, Purges, At
<1>4. CASE Drop(r)
  BY <1>1, <1>4, OntoForms DEF Drop, Drops, At
<1>5. CASE Release(r)
  <2>1. UNCHANGED <<session, chunk>> /\ p.pc = "release" /\ Answer(r, p.status)
    BY <1>5 DEF Release, At
  <2>2. Leads(p, "reply", p.status) /\ p.pc \in PcInside
    BY <2>1, WorkLabels, PcTypes DEF Leads
  <2> QED BY <2>1, <2>2, NoWriteForms
<1> QED BY <1>2, <1>3, <1>4, <1>5 DEF CleanUpStep

(* Failures that the request survives.                                     *)
Raises(r) ==
  RedisRaises(r) \/ Cancel(r) \/ S3Raises(r) \/ S3AbortFails(r) \/ PublishRaises(r)

LEMMA FailureMoves ==
  ASSUME TypeInv, NEW r \in Req, Raises(r)
  PROVE  Advances(r)
<1> DEFINE p == req[r]
           u == p.snap
<1>1. UNCHANGED histVars /\ UNCHANGED <<session, chunk>>
  BY DEF Raises, RedisRaises, Cancel, CutShort, S3Raises, S3AbortFails, PublishRaises,
         redisVars
<1> SUFFICES NoWrite(r)
  BY <1>1 DEF Advances
<1>2. /\ p.pc \in PcInside => Leads(p, "reply", ServerError)
      /\ p.pc \in PcInside \ {"init_save"} => Leads(p, "release", ServerError)
      /\ p.pc \in PcFinalize =>
           Leads(p, "s3_abort", p.status) /\ Leads(p, "fail_save", p.status)
  BY FailureStatuses, WorkLabels, PcTypes DEF Leads
<1>3. CASE CutShort(r)
  <2>1. p.pc \in PcInside
    BY <1>3, PcTypes DEF CutShort, PcInside, At
  <2>2. \/ Answer(r, ServerError)
        \/ Leave(r, ServerError) /\ p.pc # "init_save"
    BY <1>3, CriticalLabels DEF CutShort
  <2> QED BY <1>1, <1>2, <2>1, <2>2, NoWriteForms
<1>4. CASE S3Raises(r) \/ S3AbortFails(r) \/ PublishRaises(r)
  <2>1. /\ p.pc \in PcFinalize
        /\ \/ Leave(r, ServerError) \/ Go(r, "s3_abort")
           \/ GoWith(r, "fail_save", Failed(u))
    BY <1>4, WorkLabels DEF S3Raises, S3AbortFails, PublishRaises, At
  <2>2. p.pc \in PcInside \ {"init_save"}
    BY <2>1, WorkLabels, PcTypes
  <2> QED BY <1>1, <1>2, <2>1, <2>2, NoWriteForms
<1> QED BY <1>3, <1>4 DEF Raises, RedisRaises, Cancel

(* All of them.                                                            *)
LEMMA HandlersMove ==
  ASSUME TypeInv, NEW r \in Req, Work(r) \/ Raises(r)
  PROVE  Advances(r)
<1> DEFINE p == req[r]
<1>1. ReqOK
  BY DEF TypeInv
<1>2. ASSUME UNCHANGED histVars, NoWrite(r) \/ Saves(r) \/ Stores(r) PROVE Advances(r)
  BY <1>2 DEF Advances
<1>3. CASE InitiateSave(r)
  BY <1>1, <1>2, <1>3, OntoForms DEF InitiateSave, Saves, At
<1>4. CASE PatchLock(r)
  <2>1. \/ Go(r, "patch_store")
        \/ \E code : code # 200 /\ (Leave(r, code) \/ Answer(r, code))
    BY <1>4, FailureStatuses DEF PatchLock
  <2>2. p.pc = "patch_lock" /\ UNCHANGED <<session, chunk>> /\ UNCHANGED histVars
    BY <1>4 DEF PatchLock, At
  <2>3. p.pc \in PcInside
    BY <2>2, PcTypes
  <2>4. /\ Leads(p, "patch_store", p.status)
        /\ \A code : code # 200 => Leads(p, "release", code) /\ Leads(p, "reply", code)
    BY <2>2, <2>3, WorkLabels DEF Leads
  <2> QED BY <1>2, <2>1, <2>2, <2>3, <2>4, NoWriteForms
<1>5. CASE PatchStore(r)
  <2>1. \/ Onto(r, "patch_save", UpdateOffset(p.snap, Size[p.arg.data]), p.status)
        \/ \E code : Onto(r, "release", p.snap, code) /\ code # 200
    BY <1>1, <1>5, OntoForms, FailureStatuses DEF PatchStore
  <2> QED BY <1>2, <1>5, <2>1 DEF PatchStore, Stores, At
<1>6. CASE PatchSave(r)
  BY <1>1, <1>2, <1>6, OntoForms DEF PatchSave, Saves, At
<1>7. CASE AbortLock(r)
  <2>1. \/ \E code : code = 204 /\ Conclude(r, code, Aborted(p.snap))
        \/ \E code : code # 200 /\ Answer(r, code)
    BY <1>7, FailureStatuses DEF AbortLock
  <2>2. p.pc = "abort_lock" /\ UNCHANGED <<session, chunk>> /\ UNCHANGED histVars
    BY <1>7 DEF AbortLock, At
  <2>3. p.pc \in PcInside
    BY <2>2, PcTypes
  <2>4. /\ \A code : code = 204 => Leads(p, "purge_scan", code)
        /\ \A code : code # 200 => Leads(p, "reply", code)
    BY <2>2, <2>3, WorkLabels DEF Leads
  <2>5. \A code : Conclude(r, code, Aborted(p.snap)) /\ Leads(p, "purge_scan", code)
                   => NoWrite(r)
    BY <2>2, <2>3, NoWriteForms
  <2>6. \A code : Answer(r, code) /\ Leads(p, "reply", code) => NoWrite(r)
    BY <2>2, <2>3, NoWriteForms
  <2>7. NoWrite(r)
    BY <2>1, <2>4, <2>5, <2>6
  <2> QED BY <1>2, <2>2, <2>7
<1> QED BY <1>3, <1>4, <1>5, <1>6, <1>7, FinalizeMoves, CleanUpMoves, FailureMoves
        DEF Work, PatchStep

(* The ways in which a request is over.                                    *)
LEMMA HandlersEnd ==
  ASSUME NEW r \in Req, Respond(r) \/ Crash(r)
  PROVE  Ends(r)
BY DEF Respond, Crash, Ends, redisVars, s3Vars, histVars

-----------------------------------------------------------------------------
(* The client's own.                                                       *)
ChunkCount    == Len(file.chunks)
Reaches(u, n) == u.offset = OffsetOf(file, n)
Has(s, n)     == \A i \in 0 .. n - 1 : chunk[s][i] # None

OwnPart(a) == \E i \in 0 .. ChunkCount - 1 : a = Part(i, file.chunks[i + 1])

(* What is stored, what was read and what was acknowledged is of its file. *)
OwnData ==
  /\ \A s \in Session : session[s] # None => session[s].decl = file.decl
  /\ \A s \in Session, i \in Index : chunk[s][i] # None =>
       i \in 0 .. ChunkCount - 1 /\ chunk[s][i] = file.chunks[i + 1]
  /\ \A r \in Req : req[r].snap # None => req[r].snap.decl = file.decl
  /\ \A r \in Req : req[r].pc \in PcPatch => OwnPart(req[r].arg)
  /\ \A a \in acked : a.decl = file.decl

(* Requests stay where they are or are over.                               *)
Rests ==
  /\ UNCHANGED <<session, chunk, object, issued, file>>
  /\ \A x \in Req : req'[x] \in {req[x], IdleRequest}

(* The chunks of the file.                                                 *)
LEMMA ChunkFacts ==
  ASSUME ClientInv
  PROVE  /\ file.decl \in Declarations
         /\ ChunkCount \in Nat /\ ChunkCount > 0
         /\ \A i \in 0 .. ChunkCount - 1 :
              /\ i \in Index /\ file.chunks[i + 1] \in Payload
              /\ Part(i, file.chunks[i + 1]) \in ChunkRequests
<1>1. file \in Files /\ file.decl \in Declarations /\ file.chunks \in Seq(Payload)
  BY ClientAssumption DEF ClientInv, ClientFiles
<1>2. ChunkCount \in Nat /\ ChunkCount > 0
  BY FileFacts DEF ChunkCount
<1>3. ASSUME NEW i \in 0 .. ChunkCount - 1
      PROVE  /\ i \in Index /\ file.chunks[i + 1] \in Payload
             /\ Part(i, file.chunks[i + 1]) \in ChunkRequests
  <2> DEFINE j == i + 1
  <2>1. j \in 1 .. Len(file.chunks) /\ j - 1 = i
    BY <1>2 DEF ChunkCount
  <2> HIDE DEF j
  <2>2. Part(j - 1, file.chunks[j]) \in ChunkRequests
    BY <1>1, <2>1, ClientAssumption
  <2>3. Part(j - 1, file.chunks[j]) \in ChunkRequestType
    BY <2>2, StateAssumption
  <2>4. j - 1 \in Index /\ file.chunks[j] \in Payload
    BY <2>3 DEF Part, ChunkRequestType
  <2> QED BY <2>1, <2>2, <2>4 DEF j
<1> QED BY <1>1, <1>2, <1>3

(* What an operator on one request makes of its record.                    *)
LEMMA OntoFacts ==
  ASSUME ReqOK, NEW r \in Req, NEW label, NEW u, NEW code, Onto(r, label, u, code)
  PROVE  /\ req'[r].pc = label /\ req'[r].snap = u /\ req'[r].status = code
         /\ req'[r].op = req[r].op /\ req'[r].on = req[r].on
         /\ label \in PcPatch => req'[r].arg = req[r].arg
         /\ \A x \in Req \ {r} : req'[x] = req[x]
BY DEF Onto, Becomes, ReqOK

(* An ended request leaves nothing.                                        *)
LEMMA IdleFacts ==
  /\ IdleRequest.pc = "idle" /\ IdleRequest.op = "none" /\ IdleRequest.on = None
  /\ IdleRequest.snap = None /\ IdleRequest.status = 0 /\ IdleRequest.parts = <<>>
  /\ None \notin Session /\ None \notin Req /\ None \notin UploadSessions
BY ClientAssumption, StateAssumption DEF IdleRequest, NewRequest

(* What a handler that goes on leaves alone.                               *)
LEMMA AdvanceFrame ==
  ASSUME TypeInv, NEW r \in Req, Advances(r)
  PROVE  /\ req[r].pc \in PcInside /\ req[r].on \in Session
         /\ req[r].snap \in UploadSessions
         /\ req'[r].op = req[r].op /\ req'[r].on = req[r].on
         /\ \A x \in Req \ {r} : req'[x] = req[x]
         /\ \A s \in Session \ {req[r].on} :
              session'[s] = session[s] /\ chunk'[s] = chunk[s]
         /\ issued' = issued /\ acked' = acked
<1>1. ReqOK /\ StoreOK
  BY DEF TypeInv
<1>2. \E label, u, code : Onto(r, label, u, code)
  BY DEF Advances, NoWrite, Saves, Stores, Purges, Drops
<1>3. req[r].pc \in PcInside
  BY PcTypes DEF Advances, NoWrite, Leads, Saves, Stores, Purges, Drops
<1>4. req[r].on \in Session /\ req[r].snap \in UploadSessions
  BY <1>1, <1>3, InsideFacts
<1>5. \A s \in Session \ {req[r].on} : session'[s] = session[s]
  BY <1>1 DEF Advances, NoWrite, Saves, Stores, Purges, Drops, SaveSession, DeleteSession,
              StoreOK
<1>6. \A s \in Session \ {req[r].on} : chunk'[s] = chunk[s]
  BY <1>1 DEF Advances, NoWrite, Saves, Stores, Purges, Drops, SaveChunk, DeleteChunks,
              StoreOK
<1>7. issued' = issued /\ acked' = acked
  BY DEF Advances, histVars
<1> QED BY <1>1, <1>2, <1>3, <1>4, <1>5, <1>6, <1>7, OntoFacts

(* A request that is over.                                                 *)
LEMMA EndRests ==
  ASSUME ReqOK, NEW r \in Req, Ends(r), file' = file
  PROVE  Rests /\ req'[r] = IdleRequest /\ \A x \in Req \ {r} : req'[x] = req[x]
BY DEF Ends, Becomes, ReqOK, Rests

-----------------------------------------------------------------------------
(* The request a client sends, as it is after its first step.              *)
NewInitiate(q) ==
  /\ q.op = "initiate" /\ q.snap = NewUploadSession(file.decl)
  /\ \/ q.pc = "reply" /\ q.status = 200 /\ q.on = None /\ issued' = issued
     \/ q.pc = "init_save" /\ q.on \in Session \ issued /\ issued' = issued \cup {q.on}

NewPatch(q) ==
  /\ q.op = "patch" /\ q.on = sid /\ issued' = issued
  /\ \/ q.pc = "reply" /\ q.status # 200 /\ q.snap = None
     \/ /\ q.pc = "patch_lock" /\ q.snap = session[sid]
        /\ q.arg = Part(next, file.chunks[next + 1])

NewQuery(q) ==
  /\ q.op = "head" /\ q.on = sid /\ issued' = issued
  /\ q.pc = "reply" /\ q.snap = session[sid]
  /\ q.snap = None => q.status = 404

NewLocked(q, op, label) ==
  /\ q.op = op /\ q.on = sid /\ issued' = issued
  /\ \/ q.pc = "reply" /\ q.snap = None
     \/ q.pc = label /\ q.snap = session[sid]

Sent(q) ==
  /\ q.parts = <<>>
  /\ \/ phase = "initiate" /\ NewInitiate(q)
     \/ phase = "send" /\ NewPatch(q)
     \/ phase = "query" /\ NewQuery(q)
     \/ phase = "finalize" /\ NewLocked(q, "finalize", "final_lock")
     \/ phase = "abort" /\ NewLocked(q, "abort", "abort_lock")

LEMMA RequestForms ==
  \A label, op, s, u, a, code :
    LET q == NewRequest(label, op, s, u, a, code)
    IN  /\ q.pc = label /\ q.op = op /\ q.on = s /\ q.snap = u /\ q.arg = a
        /\ q.status = code /\ q.parts = <<>>
BY DEF NewRequest

LEMMA SendForms ==
  ASSUME NEW r \in Req, Send(r)
  PROVE  /\ \E q : Becomes(r, q) /\ Sent(q)
         /\ req[r].pc = "idle" /\ slot = None /\ slot' = r
         /\ UNCHANGED <<session, chunk, acked, object, file, phase, sid, next>>
<1>1. UNCHANGED <<session, chunk, acked, object>> /\ req[r].pc = "idle"
  BY DEF Send, InitiateCheck, PatchGet, QueryGet, FinalizeGet, AbortGet, At, redisVars,
         s3Vars, histVars
<1> SUFFICES \E q : Becomes(r, q) /\ Sent(q)
  BY <1>1 DEF Send
<1>2. CASE phase = "initiate" /\ InitiateCheck(r, file.decl)
  <2> DEFINE u == NewUploadSession(file.decl)
             dup == NewRequest("reply", "initiate", None, u, None, 200)
             new(s) == NewRequest("init_save", "initiate", s, u, None, 0)
  <2>1. \/ Becomes(r, dup) /\ issued' = issued
        \/ \E s \in Session \ issued : Becomes(r, new(s)) /\ issued' = issued \cup {s}
    BY <1>2 DEF InitiateCheck
  <2>2. CASE Becomes(r, dup) /\ issued' = issued
    <3>1. NewInitiate(dup) /\ dup.parts = <<>>
      BY <2>2, RequestForms DEF NewInitiate
    <3> HIDE DEF dup
    <3> QED BY <1>2, <2>2, <3>1 DEF Sent
  <2>3. CASE \E s \in Session \ issued : Becomes(r, new(s)) /\ issued' = issued \cup {s}
    <3>1. PICK s \in Session \ issued : Becomes(r, new(s)) /\ issued' = issued \cup {s}
      BY <2>3
    <3> DEFINE q == new(s)
    <3>2. NewInitiate(q) /\ q.parts = <<>> /\ Becomes(r, q)
      BY <3>1, RequestForms DEF NewInitiate
    <3> HIDE DEF q
    <3> QED BY <1>2, <3>2 DEF Sent
  <2> QED BY <2>1, <2>2, <2>3
<1>3. CASE phase = "send" /\ PatchGet(r, sid, Part(next, file.chunks[next + 1]))
  <2> DEFINE a == Part(next, file.chunks[next + 1])
             q(label, u, x, code) == NewRequest(label, "patch", sid, u, x, code)
  <2>1. /\ issued' = issued
        /\ \/ Becomes(r, q("patch_lock", session[sid], a, 0))
           \/ \E code : code # 200 /\ Becomes(r, q("reply", None, None, code))
    BY <1>3, FailureStatuses DEF PatchGet, Refuse, Receive, histVars
  <2>2. /\ NewPatch(q("patch_lock", session[sid], a, 0))
        /\ \A code : code # 200 => NewPatch(q("reply", None, None, code))
        /\ \A label, u, x, code : q(label, u, x, code).parts = <<>>
    BY <2>1, RequestForms DEF NewPatch
  <2> HIDE DEF q, a
  <2> QED BY <1>3, <2>1, <2>2 DEF Sent
<1>4. CASE phase = "query" /\ QueryGet(r, sid)
  <2> DEFINE q == NewRequest("reply", "head", sid, session[sid], None,
                             IF session[sid] = None THEN 404 ELSE 200)
  <2>1. Becomes(r, q) /\ NewQuery(q) /\ q.parts = <<>>
    BY <1>4, RequestForms DEF QueryGet, NewQuery, histVars
  <2> HIDE DEF q
  <2> QED BY <1>4, <2>1 DEF Sent
<1>5. ASSUME NEW op, NEW label, issued' = issued,
             \/ \E code : Refuse(r, op, sid, code)
             \/ Receive(r, op, sid, None, label)
      PROVE  \E q : Becomes(r, q) /\ NewLocked(q, op, label) /\ q.parts = <<>>
  BY <1>5, RequestForms DEF Refuse, Receive, NewLocked
<1>6. CASE phase = "finalize" /\ FinalizeGet(r, sid)
  <2>1. \E q : Becomes(r, q) /\ NewLocked(q, "finalize", "final_lock") /\ q.parts = <<>>
    BY <1>5, <1>6 DEF FinalizeGet, histVars
  <2> QED BY <1>6, <2>1 DEF Sent
<1>7. CASE phase = "abort" /\ AbortGet(r, sid)
  <2>1. \E q : Becomes(r, q) /\ NewLocked(q, "abort", "abort_lock") /\ q.parts = <<>>
    BY <1>5, <1>7 DEF AbortGet, histVars
  <2> QED BY <1>7, <2>1 DEF Sent
<1> QED BY <1>2, <1>3, <1>4, <1>6, <1>7 DEF Send

-----------------------------------------------------------------------------
(* Only the client's own data are stored and read.                         *)
LEMMA OwnDataRests ==
  ASSUME TypeInv, OwnData, Rests, \A a \in acked' : a \in acked \/ a.decl = file.decl
  PROVE  OwnData'
<1>1. ChunkCount' = ChunkCount /\ \A a : OwnPart(a)' = OwnPart(a)
  BY DEF Rests, ChunkCount, OwnPart
<1>2. /\ \A r \in Req : req'[r].snap # None => req'[r].snap.decl = file.decl
      /\ \A r \in Req : req'[r].pc \in PcPatch => OwnPart(req'[r].arg)
  BY IdleFacts DEF Rests, OwnData, PcPatch
<1> QED BY <1>1, <1>2 DEF OwnData, Rests, OwnPart, ChunkCount

(* A handler writes its own, too.                                          *)
LEMMA OwnDataAdvances ==
  ASSUME TypeInv, ClientInv, OwnData, NEW r \in Req, Advances(r), file' = file
  PROVE  OwnData'
<1> DEFINE p == req[r]
           q == req'[r]
<1>1. ReqOK /\ StoreOK
  BY DEF TypeInv
<1>2. /\ \A x \in Req \ {r} : req'[x] = req[x]
      /\ acked' = acked /\ p.snap \in UploadSessions /\ p.on \in Session
      /\ p.snap # None /\ p.snap.decl = file.decl
  BY AdvanceFrame, IdleFacts DEF OwnData
<1>3. \A a : OwnPart(a)' <=> OwnPart(a)
  BY DEF OwnPart, ChunkCount
<1>4. p.pc \in PcPatch => p.arg \in ChunkRequests /\ OwnPart(p.arg)
  BY <1>1, InsideFacts, PcFacts DEF OwnData
<1>5. q.snap.decl = file.decl /\ (q.pc \in PcPatch => q.arg = p.arg /\ p.pc \in PcPatch)
  <2>1. CASE NoWrite(r)
    BY <1>1, <1>2, <2>1, OntoFacts, WorkLabels DEF NoWrite, SameEntity, Leads
  <2>2. CASE Saves(r)
    BY <1>1, <1>2, <2>2, OntoFacts, WorkLabels DEF Saves
  <2>3. CASE Stores(r)
    <3>1. Size[p.arg.data] \in Nat
      BY <1>4, <2>3, WorkLabels, StateAssumption DEF Stores, ChunkRequestType
    <3>2. UpdateOffset(p.snap, Size[p.arg.data]).decl = file.decl
      BY <1>2 DEF UpdateOffset, UploadSessions
    <3> QED BY <1>1, <1>2, <2>3, <3>2, OntoFacts, WorkLabels DEF Stores
  <2>4. CASE Purges(r) \/ Drops(r)
    BY <1>1, <1>2, <2>4, OntoFacts, WorkLabels DEF Purges, Drops
  <2> QED BY <2>1, <2>2, <2>3, <2>4 DEF Advances
<1>6. \A s \in Session : session'[s] # None => session'[s].decl = file.decl
  <2>1. session' = session \/ session' = [session EXCEPT ![p.on] = p.snap]
        \/ session' = [session EXCEPT ![p.on] = None]
    BY DEF Advances, NoWrite, Saves, Stores, Purges, Drops, SaveSession, DeleteSession
  <2> QED BY <1>1, <1>2, <2>1 DEF OwnData, StoreOK
<1>7. \A s \in Session, i \in Index : chunk'[s][i] # None =>
        i \in 0 .. ChunkCount - 1 /\ chunk'[s][i] = file.chunks[i + 1]
  <2>1. CASE chunk' = chunk
    BY <2>1 DEF OwnData
  <2>2. CASE Stores(r)
    <3>1. PICK i \in 0 .. ChunkCount - 1 : p.arg = Part(i, file.chunks[i + 1])
      BY <1>4, <2>2, WorkLabels DEF Stores, OwnPart
    <3>2. p.arg.index = i /\ p.arg.data = file.chunks[i + 1]
      BY <3>1 DEF Part
    <3>3. chunk' = [chunk EXCEPT ![p.on][i] = file.chunks[i + 1]]
      BY <2>2, <3>2 DEF Stores, SaveChunk
    <3> QED BY <1>1, <1>2, <3>3 DEF OwnData, StoreOK
  <2>3. CASE Purges(r)
    BY <1>1, <1>2, <2>3 DEF OwnData, StoreOK, Purges, DeleteChunks
  <2> QED BY <2>1, <2>2, <2>3 DEF Advances, NoWrite, Saves, Drops
<1>8. /\ \A x \in Req : req'[x].snap # None => req'[x].snap.decl = file.decl
      /\ \A x \in Req : req'[x].pc \in PcPatch => OwnPart(req'[x].arg)
  <2>1. ASSUME NEW x \in Req
        PROVE  /\ req'[x].snap # None => req'[x].snap.decl = file.decl
               /\ req'[x].pc \in PcPatch => OwnPart(req'[x].arg)
    <3>1. CASE x = r
      BY <1>4, <1>5, <3>1
    <3>2. CASE x # r
      BY <1>2, <3>2 DEF OwnData
    <3> QED BY <3>1, <3>2
  <2> QED BY <2>1
<1>9. \A a \in acked' : a.decl = file.decl
  BY <1>2 DEF OwnData
<1> QED BY <1>3, <1>6, <1>7, <1>8, <1>9 DEF OwnData, ChunkCount

(* What it sends is its own.                                               *)
LEMMA OwnDataSent ==
  ASSUME TypeInv, ClientInv, OwnData, NEW r \in Req, Send(r)
  PROVE  OwnData'
<1>1. PICK q : Becomes(r, q) /\ Sent(q)
  BY SendForms
<1>2. UNCHANGED <<session, chunk, acked, file>> /\ ReqOK
  BY SendForms DEF TypeInv
<1>3. req'[r] = q /\ \A x \in Req \ {r} : req'[x] = req[x]
  BY <1>1, <1>2 DEF Becomes, ReqOK
<1>4. \A a : OwnPart(a)' <=> OwnPart(a)
  BY <1>2 DEF OwnPart, ChunkCount
<1>5. q.snap # None => q.snap.decl = file.decl
  <2>1. q.snap \in {None, NewUploadSession(file.decl), session[sid]}
    BY <1>1 DEF Sent, NewInitiate, NewPatch, NewQuery, NewLocked
  <2>2. NewUploadSession(file.decl).decl = file.decl
    BY DEF NewUploadSession
  <2>3. q.snap = session[sid] => phase # "initiate" \/ q.snap = NewUploadSession(file.decl)
    BY <1>1 DEF Sent, NewInitiate
  <2>4. phase # "initiate" => sid \in Session
    BY <1>1 DEF Sent, ClientInv, Phases
  <2> QED BY <2>1, <2>2, <2>3, <2>4 DEF OwnData
<1>6. q.pc \in PcPatch => OwnPart(q.arg)
  <2>1. q.pc \in PcPatch => phase = "send" /\ q.arg = Part(next, file.chunks[next + 1])
    BY <1>1, WorkLabels DEF Sent, NewInitiate, NewPatch, NewQuery, NewLocked
  <2>2. phase = "send" => next \in 0 .. ChunkCount - 1
    BY DEF ClientInv, ChunkCount
  <2> QED BY <2>1, <2>2 DEF OwnPart
<1>7. /\ \A x \in Req : req'[x].snap # None => req'[x].snap.decl = file.decl
      /\ \A x \in Req : req'[x].pc \in PcPatch => OwnPart(req'[x].arg)
  BY <1>3, <1>5, <1>6 DEF OwnData
<1> QED BY <1>2, <1>4, <1>7 DEF OwnData, ChunkCount

-----------------------------------------------------------------------------
(* The operation of a request fits where it is.                            *)
Fits(q) ==
  /\ q.pc = "init_save" => q.op = "initiate"
  /\ q.pc \in PcPatch => q.op = "patch"
  /\ q.pc \in PcFinalize => q.op = "finalize"
  /\ q.pc = "abort_lock" => q.op = "abort"
  /\ q.pc \in PcPurging => q.op \in {"finalize", "abort"}
  /\ q.pc = "release" => q.op \in {"patch", "finalize", "abort"}
  /\ q.op = "head" => q.pc = "reply" /\ (q.status = 404 \/ q.snap # None)

(* It is the one that the client waits for.                                *)
Awaited(q) ==
  /\ phase = "initiate" => q.op = "initiate"
  /\ phase = "send"     => q.op = "patch" /\ q.on = sid
  /\ phase = "query"    => q.op = "head" /\ q.on = sid
  /\ phase = "finalize" => q.op = "finalize" /\ q.on = sid
  /\ phase = "abort"    => q.op = "abort" /\ q.on = sid

Exchange ==
  /\ \A r \in Req : Fits(req[r])
  /\ slot # None => slot \in Req /\ Awaited(req[slot])
  /\ phase = "done" => \E a \in acked : a.op \in {"finalize", "initiate"}

(* The client goes on waiting.                                             *)
Waits == UNCHANGED <<file, phase, slot, sid, next>>

LEMMA FitFacts ==
  ASSUME NEW q, Fits(q)
  PROVE  /\ q.op = "initiate" /\ q.pc \in PcInside => q.pc = "init_save"
         /\ q.op = "head" => q.pc \notin PcInside
         /\ q.op = "patch" /\ q.pc \in PcInside => q.pc \in PcPatch \cup {"release"}
BY PcTypes, WorkLabels DEF Fits

(* Handlers keep to it.                                                    *)
LEMMA FitsAdvances ==
  ASSUME TypeInv, NEW r \in Req, Fits(req[r]), Advances(r)
  PROVE  Fits(req'[r])
<1> DEFINE p == req[r]
           q == req'[r]
<1>0. Fits(p)
  OBVIOUS
<1>1. ReqOK /\ p.pc \in PcInside /\ q.op = p.op
  BY AdvanceFrame DEF TypeInv
<1>2. q.op # "head"
  BY <1>1, FitFacts
<1>3. CASE NoWrite(r)
  <2>1. PICK label, u, code : Onto(r, label, u, code) /\ Leads(p, label, code)
    BY <1>3 DEF NoWrite
  <2>2. q.pc = label
    BY <1>1, <2>1, OntoFacts
  <2> HIDE DEF p, q
  <2>3. /\ label # "init_save" /\ label # "abort_lock"
        /\ label \in PcPatch => p.pc \in PcPatch
        /\ label \in PcFinalize => p.pc \in PcFinalize
        /\ label \in PcPurging => p.pc \in PcPurging \cup {"abort_lock"} \cup PcFinalize
        /\ label = "release" => p.pc # "init_save"
    BY <2>1, WorkLabels DEF Leads
  <2>4. p.op # "initiate" => p.op \in {"patch", "finalize", "abort"}
    BY <1>1, PcTypes, WorkLabels DEF Fits, p
  <2>5. p.pc # "init_save" => p.op \in {"patch", "finalize", "abort"}
    BY <1>1, PcTypes, WorkLabels DEF Fits, p
  <2>6. Fits(q)
    BY <1>0, <1>1, <1>2, <2>2, <2>3, <2>5 DEF Fits
  <2> QED BY <2>6 DEF q
<1>4. CASE Saves(r) \/ Stores(r) \/ Purges(r) \/ Drops(r)
  <2>1. \/ q.pc = "reply"
        \/ q.pc = "release" /\ p.pc \in {"patch_save", "fail_save", "patch_store", "drop"}
        \/ q.pc = "purge_scan" /\ p.pc = "mal_save"
        \/ q.pc = "patch_save" /\ p.pc = "patch_store"
        \/ q.pc = "drop" /\ p.pc = "purge_delete"
    BY <1>1, <1>4, OntoFacts DEF Saves, Stores, Purges, Drops
  <2> HIDE DEF q, p
  <2>2. Fits(q)
    BY <1>0, <1>1, <1>2, <2>1, WorkLabels DEF Fits
  <2> QED BY <2>2 DEF q
<1> QED BY <1>3, <1>4 DEF Advances

(* So do clients, ...                                                      *)
LEMMA FitsSent ==
  ASSUME NEW q, Sent(q)
  PROVE  Fits(q) /\ Awaited(q)
<1>1. q.pc \in {"reply", "init_save", "patch_lock", "final_lock", "abort_lock"}
  BY DEF Sent, NewInitiate, NewPatch, NewQuery, NewLocked
<1>2. Awaited(q)
  BY DEF Sent, NewInitiate, NewPatch, NewQuery, NewLocked, Awaited
<1>3. Fits(q)
  BY <1>1, WorkLabels DEF Sent, NewInitiate, NewPatch, NewQuery, NewLocked, Fits
<1> QED BY <1>2, <1>3

LEMMA FitsIdle == Fits(IdleRequest)
BY IdleFacts, WorkLabels DEF Fits

(* ... and so all of them fit.                                             *)
LEMMA ExchangeSent ==
  ASSUME TypeInv, Exchange, NEW r \in Req, Send(r)
  PROVE  Exchange'
<1>1. PICK q : Becomes(r, q) /\ Sent(q)
  BY SendForms
<1>2. slot' = r /\ phase' = phase /\ acked' = acked /\ sid' = sid /\ ReqOK
  BY SendForms DEF TypeInv
<1>3. req'[r] = q /\ \A x \in Req \ {r} : req'[x] = req[x]
  BY <1>1, <1>2 DEF Becomes, ReqOK
<1>4. \A x \in Req : Fits(req'[x])
  BY <1>1, <1>3, FitsSent DEF Exchange
<1>5. Awaited(q)
  BY <1>1, FitsSent
<1>6. (slot # None => slot \in Req /\ Awaited(req[slot]))'
  BY <1>2, <1>3, <1>5 DEF Awaited
<1>7. (\A x \in Req : Fits(req[x]))'
  BY <1>4 DEF Fits
<1> QED BY <1>2, <1>6, <1>7 DEF Exchange

LEMMA ExchangeAdvances ==
  ASSUME TypeInv, Exchange, NEW r \in Req, Advances(r), Waits
  PROVE  Exchange'
<1>1. /\ \A x \in Req \ {r} : req'[x] = req[x]
      /\ req'[r].op = req[r].op /\ req'[r].on = req[r].on /\ acked' = acked
  BY AdvanceFrame
<1>2. Fits(req'[r])
  BY FitsAdvances DEF Exchange
<1>3. (\A x \in Req : Fits(req[x]))'
  BY <1>1, <1>2 DEF Exchange, Fits
<1>4. (slot # None => slot \in Req /\ Awaited(req[slot]))'
  BY <1>1 DEF Exchange, Awaited, Waits
<1> QED BY <1>1, <1>3, <1>4 DEF Exchange, Waits

LEMMA ExchangeRests ==
  ASSUME Exchange, Rests, acked \subseteq acked',
         slot' = None \/ (Waits /\ (slot # None => req'[slot] = req[slot])),
         phase' = "done" =>
           phase = "done" \/ \E a \in acked' : a.op \in {"finalize", "initiate"}
  PROVE  Exchange'
<1>1. (\A x \in Req : Fits(req[x]))'
  BY FitsIdle DEF Rests, Exchange, Fits
<1>2. (slot # None => slot \in Req /\ Awaited(req[slot]))'
  BY DEF Exchange, Waits, Awaited
<1>3. (phase = "done" => \E a \in acked : a.op \in {"finalize", "initiate"})'
  BY DEF Exchange
<1> QED BY <1>1, <1>2, <1>3 DEF Exchange

-----------------------------------------------------------------------------
(* The id of an initiate in progress is nobody else's, and its session is  *)
(* new when the client hears of it.                                        *)
Brand(r) ==
  /\ req[r].on # sid
  /\ \A x \in Req \ {r} : req[x].on # req[r].on
  /\ req[r].pc = "init_save" => req[r].snap.offset = 0
  /\ req[r].pc = "reply" /\ req[r].status = 201 =>
       session[req[r].on] # None /\ session[req[r].on].offset = 0

IdsAreNew ==
  /\ sid \in issued \cup {None}
  /\ \A r \in Req : req[r].on \in issued \cup {None}
  /\ \A r \in Req : req[r].op = "initiate" /\ req[r].on # None => Brand(r)

(* The client was given this id, or has been told it now.                  *)
LEMMA IdsRest ==
  ASSUME IdsAreNew, Rests,
         \/ sid' = sid
         \/ \E r \in Req : /\ sid' = req[r].on /\ sid' # None
                           /\ req[r].op = "initiate" /\ req'[r] = IdleRequest
  PROVE  IdsAreNew'
<1>1. \A x \in Req : req'[x].on \in {req[x].on, None}
  BY IdleFacts DEF Rests
<1>2. sid' \in issued' \cup {None} /\ \A x \in Req : req'[x].on \in issued' \cup {None}
  BY <1>1 DEF IdsAreNew, Rests
<1>3. ASSUME NEW x \in Req, req'[x].op = "initiate", req'[x].on # None
      PROVE  Brand(x)'
  <2>1. req'[x] = req[x] /\ Brand(x)
    BY <1>3, IdleFacts DEF Rests, IdsAreNew
  <2>2. req[x].on # sid'
    <3>1. CASE sid' = sid
      BY <2>1, <3>1 DEF Brand
    <3>2. ASSUME NEW r \in Req, sid' = req[r].on, sid' # None, req[r].op = "initiate",
                 req'[r] = IdleRequest
          PROVE  req[x].on # sid'
      <4>1. x # r
        BY <1>3, <3>2, IdleFacts
      <4> QED BY <2>1, <3>2, <4>1 DEF Brand
    <3> QED BY <3>1, <3>2
  <2>3. \A y \in Req \ {x} : req'[y].on # req[x].on
    BY <1>1, <1>3, <2>1 DEF Brand
  <2> QED BY <2>1, <2>2, <2>3 DEF Brand, Rests
<1> QED BY <1>2, <1>3 DEF IdsAreNew

(* The client sends a request.                                             *)
LEMMA IdsSent ==
  ASSUME TypeInv, IdsAreNew, NEW r \in Req, Send(r)
  PROVE  IdsAreNew'
<1>1. PICK q : Becomes(r, q) /\ Sent(q)
  BY SendForms
<1>2. ReqOK /\ issued \subseteq Session /\ sid' = sid /\ session' = session
  BY SendForms DEF TypeInv, StoreOK
<1>3. req'[r] = q /\ \A x \in Req \ {r} : req'[x] = req[x]
  BY <1>1, <1>2 DEF Becomes, ReqOK
<1>4. issued \subseteq issued' /\ q.on \in issued' \cup {None}
  BY <1>1 DEF Sent, NewInitiate, NewPatch, NewQuery, NewLocked, IdsAreNew
<1>5. q.op # "initiate" \/ q.on = None => q.on \in {sid, None}
  BY <1>1 DEF Sent, NewInitiate, NewPatch, NewQuery, NewLocked
<1>6. q.op = "initiate" /\ q.on # None =>
        q.on \in Session \ issued /\ q.pc = "init_save" /\ q.snap.offset = 0
  BY <1>1 DEF Sent, NewInitiate, NewPatch, NewQuery, NewLocked, NewUploadSession
<1>7. ASSUME NEW x \in Req, req'[x].op = "initiate", req'[x].on # None
      PROVE  Brand(x)'
  <2>1. CASE x = r
    <3>1. q.on # sid /\ \A y \in Req \ {r} : req[y].on # q.on
      BY <1>2, <1>3, <1>6, <1>7, <2>1, IdleFacts DEF IdsAreNew
    <3> QED BY <1>2, <1>3, <1>6, <1>7, <2>1, <3>1 DEF Brand
  <2>2. CASE x # r
    <3>1. Brand(x) /\ req'[x] = req[x] /\ req[x].on \in issued
      BY <1>3, <1>7, <2>2 DEF IdsAreNew
    <3>2. q.on # req[x].on
      BY <1>2, <1>5, <1>6, <3>1, IdleFacts DEF Brand
    <3> QED BY <1>2, <1>3, <3>1, <3>2 DEF Brand
  <2> QED BY <2>1, <2>2
<1>8. \A x \in Req : req'[x].on \in issued' \cup {None}
  BY <1>3, <1>4 DEF IdsAreNew
<1> QED BY <1>2, <1>4, <1>7, <1>8 DEF IdsAreNew

(* A handler goes on.                                                      *)
LEMMA IdsAdvance ==
  ASSUME TypeInv, Exchange, IdsAreNew, NEW r \in Req, Advances(r), Waits
  PROVE  IdsAreNew'
<1> DEFINE p == req[r]
           q == req'[r]
<1>1. ReqOK /\ StoreOK
  BY DEF TypeInv
<1>2. /\ \A x \in Req \ {r} : req'[x] = req[x]
      /\ q.op = p.op /\ q.on = p.on /\ issued' = issued /\ p.on \in Session
      /\ p.pc \in PcInside
      /\ \A s \in Session \ {p.on} : session'[s] = session[s]
  BY AdvanceFrame
<1>3. \A x \in Req : req'[x].on = req[x].on /\ req'[x].op = req[x].op
  BY <1>2
<1>4. ASSUME NEW x \in Req, req'[x].op = "initiate", req'[x].on # None
      PROVE  Brand(x)'
  <2>1. Brand(x) /\ req[x].on \in Session
    BY <1>1, <1>3, <1>4 DEF IdsAreNew, StoreOK
  <2>2. req'[x].on # sid' /\ \A y \in Req \ {x} : req'[y].on # req'[x].on
    BY <1>3, <2>1 DEF Brand, Waits
  <2>3. CASE x # r
    <3>1. req'[x] = req[x] /\ session'[req[x].on] = session[req[x].on]
      BY <1>2, <2>1, <2>3 DEF Brand
    <3> QED BY <2>1, <2>2, <3>1 DEF Brand
  <2>4. CASE x = r
    <3>1. p.pc = "init_save" /\ p.snap.offset = 0 /\ p.snap # None
      BY <1>2, <1>3, <1>4, <2>1, <2>4, FitFacts, AdvanceFrame, IdleFacts DEF Exchange, Brand
    <3>2. CASE NoWrite(r)
      <4>1. PICK label, u, code : Onto(r, label, u, code) /\ Leads(p, label, code)
        BY <3>2 DEF NoWrite
      <4>2. label # "init_save" /\ (label = "reply" => code # 201)
        BY <3>1, <4>1, WorkLabels DEF Leads
      <4>3. q.pc = label /\ q.status = code
        BY <1>1, <4>1, OntoFacts
      <4> QED BY <2>2, <2>4, <4>2, <4>3 DEF Brand
    <3>3. CASE Saves(r)
      <4>1. q.pc = "reply" /\ session' = [session EXCEPT ![p.on] = p.snap]
        BY <1>1, <3>1, <3>3, OntoFacts DEF Saves, SaveSession
      <4>2. session'[q.on] = p.snap
        BY <1>1, <1>2, <4>1 DEF StoreOK
      <4> QED BY <2>2, <2>4, <3>1, <4>1, <4>2 DEF Brand
    <3> QED BY <3>1, <3>2, <3>3 DEF Advances, Stores, Purges, Drops
  <2> QED BY <2>3, <2>4
<1>5. sid' \in issued' \cup {None} /\ \A x \in Req : req'[x].on \in issued' \cup {None}
  BY <1>2, <1>3 DEF IdsAreNew, Waits
<1> QED BY <1>4, <1>5 DEF IdsAreNew

-----------------------------------------------------------------------------
(* All chunks were stored and the offset says so: nothing is sent to this  *)
(* session any more, and its chunks can only be purged together.           *)
Sealed(s) ==
  /\ s \in issued
  /\ Has(s, ChunkCount) \/ NoChunkIn(s, chunk)
  /\ session[s] # None => Reaches(session[s], ChunkCount)
  /\ \A r \in Req : req[r].on = s =>
       /\ req[r].op \notin {"patch", "initiate"}
       /\ req[r].op = "finalize" /\ req[r].snap # None =>
            Reaches(req[r].snap, ChunkCount)

LEMMA SealedRests ==
  ASSUME TypeInv, Rests, NEW s, Sealed(s)
  PROVE  Sealed(s)'
<1>1. s \in Session /\ s # None
  BY IdleFacts DEF TypeInv, StoreOK, Sealed
<1>2. \A r \in Req : req'[r].on = s => req'[r] = req[r]
  BY <1>1, IdleFacts DEF Rests
<1> QED BY <1>2 DEF Rests, Sealed, Has, NoChunkIn, Reaches, ChunkCount

LEMMA SealedSent ==
  ASSUME TypeInv, NEW r \in Req, Send(r), NEW s, Sealed(s), sid = s => phase # "send"
  PROVE  Sealed(s)'
<1>1. PICK q : Becomes(r, q) /\ Sent(q)
  BY SendForms
<1>2. /\ UNCHANGED <<session, chunk, file>> /\ ReqOK
      /\ s \in Session /\ s # None /\ s \in issued
  BY SendForms, IdleFacts DEF TypeInv, StoreOK, Sealed
<1>3. req'[r] = q /\ \A x \in Req \ {r} : req'[x] = req[x]
  BY <1>1, <1>2 DEF Becomes, ReqOK
<1>4. issued \subseteq issued'
  BY <1>1 DEF Sent, NewInitiate, NewPatch, NewQuery, NewLocked
<1>5. ASSUME q.on = s
      PROVE  /\ q.op \notin {"patch", "initiate"}
             /\ q.op = "finalize" /\ q.snap # None => Reaches(q.snap, ChunkCount)
  <2>1. q.op # "initiate" /\ q.op # "patch"
    BY <1>1, <1>2, <1>5 DEF Sent, NewInitiate, NewPatch, NewQuery, NewLocked
  <2>2. q.op = "finalize" => q.snap \in {None, session[s]}
    BY <1>1, <1>5 DEF Sent, NewInitiate, NewPatch, NewQuery, NewLocked
  <2> QED BY <2>1, <2>2 DEF Sealed
<1>6. ASSUME NEW x \in Req, req'[x].on = s
      PROVE  /\ req'[x].op \notin {"patch", "initiate"}
             /\ req'[x].op = "finalize" /\ req'[x].snap # None =>
                  Reaches(req'[x].snap, ChunkCount)
  BY <1>3, <1>5, <1>6 DEF Sealed
<1> QED BY <1>2, <1>4, <1>6 DEF Sealed, Has, NoChunkIn, Reaches, ChunkCount

LEMMA SealedAdvances ==
  ASSUME TypeInv, Exchange, PurgeInv, NEW r \in Req, Advances(r), file' = file,
         NEW s, Sealed(s)
  PROVE  Sealed(s)'
<1> DEFINE p == req[r]
           q == req'[r]
<1>1. ReqOK /\ StoreOK /\ s \in Session
  BY DEF TypeInv, StoreOK, Sealed
<1>2. /\ \A x \in Req \ {r} : req'[x] = req[x]
      /\ q.op = p.op /\ q.on = p.on /\ issued' = issued /\ p.pc \in PcInside
      /\ p.snap \in UploadSessions
      /\ \A t \in Session \ {p.on} : session'[t] = session[t] /\ chunk'[t] = chunk[t]
  BY AdvanceFrame
<1>3. CASE p.on # s
  <2>1. session'[s] = session[s] /\ chunk'[s] = chunk[s]
    BY <1>1, <1>2, <1>3
  <2>2. \A x \in Req : req'[x].on = s => req'[x] = req[x]
    BY <1>2, <1>3
  <2> QED BY <1>2, <2>1, <2>2 DEF Sealed, Has, NoChunkIn, Reaches, ChunkCount
<1>4. CASE p.on = s
  <2>1. /\ Fits(p) /\ p.op \notin {"patch", "initiate"} /\ p.snap # None
        /\ p.op = "finalize" => Reaches(p.snap, ChunkCount)
    BY <1>2, <1>4, IdleFacts DEF Exchange, Sealed
  <2>2. p.pc \notin {"init_save", "patch_store", "patch_save"} /\ ~Stores(r)
    BY <2>1, WorkLabels DEF Fits, Stores
  <2>3. q.op = "finalize" => Reaches(q.snap, ChunkCount)
    <3>1. q.snap.offset = p.snap.offset
      BY <1>1, <2>2, OntoFacts DEF Advances, NoWrite, SameEntity, Saves, Purges, Drops
    <3> QED BY <1>2, <2>1, <3>1 DEF Reaches
  <2>4. session'[s] # None => Reaches(session'[s], ChunkCount)
    <3>1. CASE session' = session \/ session' = [session EXCEPT ![s] = None]
      BY <1>1, <3>1 DEF Sealed, StoreOK
    <3>2. CASE Saves(r)
      <4>1. p.op = "finalize"
        BY <2>1, <2>2, <3>2, WorkLabels DEF Saves, Fits
      <4>2. session'[s] = p.snap
        BY <1>1, <1>4, <3>2 DEF Saves, SaveSession, StoreOK
      <4> QED BY <2>1, <4>1, <4>2
    <3> QED BY <1>4, <2>2, <3>1, <3>2 DEF Advances, NoWrite, Purges, Drops, DeleteSession
  <2>5. chunk' = chunk \/ NoChunkIn(s, chunk')
    <3>1. CASE Purges(r)
      <4>1. \A i \in Index : chunk[s][i] # None => i \in p.found
        BY <1>4, <3>1 DEF Purges, PurgeInv, CleansUp
      <4>2. chunk' = [chunk EXCEPT ![s] =
                        [i \in Index |-> IF i \in p.found THEN None ELSE @[i]]]
        BY <1>4, <3>1 DEF Purges, DeleteChunks
      <4> QED BY <1>1, <4>1, <4>2 DEF NoChunkIn, StoreOK
    <3> QED BY <2>2, <3>1 DEF Advances, NoWrite, Saves, Drops
  <2>6. Has(s, ChunkCount)' \/ NoChunkIn(s, chunk)'
    BY <2>5 DEF Sealed, Has, NoChunkIn, ChunkCount
  <2>7. ASSUME NEW x \in Req, req'[x].on = s
        PROVE  /\ req'[x].op \notin {"patch", "initiate"}
               /\ req'[x].op = "finalize" /\ req'[x].snap # None =>
                    Reaches(req'[x].snap, ChunkCount)
    BY <1>2, <2>1, <2>3, <2>7 DEF Sealed
  <2> QED BY <1>2, <2>4, <2>6, <2>7 DEF Sealed, Reaches, ChunkCount
<1> QED BY <1>3, <1>4

-----------------------------------------------------------------------------
(* While the client sends or asks how far it got, the session has an       *)
(* offset that counts the first chunks, and they are stored.  Nobody else  *)
(* writes: what else is in progress about it are reads.                    *)
Stored(s) ==
  /\ s \in issued /\ session[s] # None
  /\ \E n \in 0 .. ChunkCount : Reaches(session[s], n) /\ Has(s, n)

OnlyHeads(s, r) == \A x \in Req : req[x].on = s /\ x # r => req[x].op = "head"

(* The PATCH it waits for.                                                 *)
SendsPart(q) ==
  /\ q.pc \in {"patch_lock", "patch_store"} =>
       Reaches(q.snap, next) /\ q.arg = Part(next, file.chunks[next + 1])
  /\ q.pc = "patch_save" => Reaches(q.snap, next + 1) /\ chunk[sid][next] # None
  /\ q.pc \in {"release", "reply"} /\ q.status = 200 =>
       q.snap # None /\ q.snap.offset = session[sid].offset

Sending ==
  /\ Stored(sid) /\ Has(sid, next) /\ OnlyHeads(sid, slot)
  /\ slot = None => Reaches(session[sid], next)
  /\ slot # None => SendsPart(req[slot])

(* The HEAD it waits for.                                                  *)
Told == slot # None /\ req[slot].snap # None

Querying ==
  /\ Stored(sid) /\ OnlyHeads(sid, None)
  /\ Told => req[slot].snap.offset = session[sid].offset

QueryingSealed == Sealed(sid) /\ (Told => Reaches(req[slot].snap, ChunkCount))

(* It sends the next chunk.                                                *)
LEMMA SendingSent ==
  ASSUME TypeInv, NEW r \in Req, Send(r), phase = "send", Sending
  PROVE  Sending'
<1>1. PICK q : Becomes(r, q) /\ Sent(q)
  BY SendForms
<1>2. /\ UNCHANGED <<session, chunk, file, sid, next>> /\ ReqOK
      /\ slot = None /\ slot' = r /\ r # None
  BY SendForms, IdleFacts DEF TypeInv
<1>3. req'[r] = q /\ \A x \in Req \ {r} : req'[x] = req[x]
  BY <1>1, <1>2 DEF Becomes, ReqOK
<1>4. NewPatch(q)
  BY <1>1 DEF Sent
<1>5. Stored(sid)' /\ Has(sid, next)'
  BY <1>2, <1>4 DEF Sending, Stored, Reaches, Has, ChunkCount, NewPatch
<1>6. OnlyHeads(sid, slot)'
  BY <1>2, <1>3, IdleFacts DEF Sending, OnlyHeads
<1>7. SendsPart(req[slot])'
  <2>1. Reaches(session[sid], next)
    BY <1>2 DEF Sending
  <2>2. SendsPart(q)
    BY <1>4, <2>1 DEF NewPatch, SendsPart
  <2> QED BY <1>2, <1>3, <2>2 DEF SendsPart, Reaches
<1> QED BY <1>2, <1>5, <1>6, <1>7 DEF Sending

(* Nothing happens to it.                                                  *)
LEMMA SendingRests ==
  ASSUME Rests, Waits, slot # None => req'[slot] = req[slot], TypeInv, Sending
  PROVE  Sending'
<1>1. sid \in Session /\ sid # None
  BY IdleFacts DEF Sending, Stored, TypeInv, StoreOK
<1>2. OnlyHeads(sid, slot)'
  BY <1>1, IdleFacts DEF Sending, OnlyHeads, Rests, Waits
<1>3. Stored(sid)' /\ Has(sid, next)'
  BY DEF Sending, Stored, Rests, Waits, Reaches, Has, ChunkCount
<1>4. (slot = None => Reaches(session[sid], next))'
      /\ (slot # None => SendsPart(req[slot]))'
  BY DEF Sending, Rests, Waits, Reaches, SendsPart
<1> QED BY <1>2, <1>3, <1>4 DEF Sending

(* A handler goes on: that of another session ...                          *)
LEMMA StoredElsewhere ==
  ASSUME TypeInv, NEW r \in Req, Advances(r), Waits, Stored(sid), req[r].on # sid
  PROVE  /\ Stored(sid)' /\ session'[sid] = session[sid] /\ chunk'[sid] = chunk[sid]
         /\ \A x \in Req : OnlyHeads(sid, x) => OnlyHeads(sid, x)'
         /\ OnlyHeads(sid, None) => OnlyHeads(sid, None)'
<1>1. sid \in Session
  BY DEF Stored, TypeInv, StoreOK
<1>2. /\ session'[sid] = session[sid] /\ chunk'[sid] = chunk[sid]
      /\ issued' = issued /\ sid' = sid /\ file' = file
      /\ \A x \in Req \ {r} : req'[x] = req[x]
      /\ req'[r].on = req[r].on
  BY <1>1, AdvanceFrame DEF Waits
<1>3. Stored(sid)'
  BY <1>2 DEF Stored, Reaches, Has, ChunkCount
<1>4. \A x : OnlyHeads(sid, x) => OnlyHeads(sid, x)'
  BY <1>2 DEF OnlyHeads
<1> QED BY <1>2, <1>3, <1>4

(* ... or that of the PATCH.                                               *)
LEMMA PatchAdvances ==
  ASSUME TypeInv, ClientInv, Exchange, Sending, phase = "send", slot # None,
         Advances(slot), Waits
  PROVE  Sending'
<1> DEFINE r == slot
           p == req[r]
           q == req'[r]
<1>1. ReqOK /\ StoreOK /\ r \in Req
  BY DEF TypeInv, Exchange
<1>2. /\ \A x \in Req \ {r} : req'[x] = req[x]
      /\ q.op = p.op /\ q.on = p.on /\ issued' = issued /\ p.pc \in PcInside
      /\ p.snap \in UploadSessions
  BY <1>1, AdvanceFrame
<1>3. p.op = "patch" /\ p.on = sid /\ Fits(p) /\ SendsPart(p)
  BY <1>1 DEF Exchange, Awaited, Sending
<1>4. /\ p.pc \in PcPatch \cup {"release"} /\ p.snap # None
      /\ sid \in Session /\ UNCHANGED <<file, slot, sid, next>>
  BY <1>1, <1>2, <1>3, FitFacts, IdleFacts DEF Waits, Sending, Stored, StoreOK
<1>5. next \in 0 .. ChunkCount - 1 /\ ChunkCount \in Nat /\ next \in Index
      /\ file.chunks[next + 1] \in Payload /\ file.chunks[next + 1] # None
  BY ChunkFacts, StateAssumption DEF ClientInv, ChunkCount
<1>6. OnlyHeads(sid, slot)'
  BY <1>2, <1>4 DEF Sending, OnlyHeads
<1>7. CASE NoWrite(r)
  <2>1. PICK label, u, code : /\ Onto(r, label, u, code) /\ SameEntity(u, p.snap)
                              /\ Leads(p, label, code)
    BY <1>7 DEF NoWrite
  <2>2. /\ q.pc = label /\ q.snap = u /\ q.status = code
        /\ label \in PcPatch => q.arg = p.arg
    BY <1>1, <2>1, OntoFacts
  <2>3. UNCHANGED <<session, chunk>>
    BY <1>7 DEF NoWrite
  <2>4. /\ label \notin {"patch_lock", "patch_save"}
        /\ label = "patch_store" => p.pc = "patch_lock"
        /\ label \in {"release", "reply"} /\ code = 200 => p.pc = "release" /\ p.status = 200
    BY <2>1, WorkLabels DEF Leads
  <2>5. u # None /\ u.offset = p.snap.offset
    BY <2>1, IdleFacts DEF SameEntity
  <2>6. SendsPart(q)
    BY <1>3, <2>2, <2>4, <2>5, WorkLabels DEF SendsPart, Reaches
  <2>7. SendsPart(req[slot])'
    BY <1>4, <2>3, <2>6 DEF SendsPart, Reaches
  <2>8. Stored(sid)' /\ Has(sid, next)'
    BY <1>2, <1>4, <2>3 DEF Sending, Stored, Reaches, Has, ChunkCount
  <2> QED BY <1>4, <1>6, <2>7, <2>8 DEF Sending
<1>8. CASE Saves(r)
  <2>1. p.pc = "patch_save" /\ Onto(r, "release", p.snap, 200) /\ chunk' = chunk
        /\ session' = [session EXCEPT ![sid] = p.snap]
    BY <1>3, <1>4, <1>8, WorkLabels DEF Saves, SaveSession
  <2>2. q.pc = "release" /\ q.snap = p.snap /\ session'[sid] = p.snap
    BY <1>1, <1>4, <2>1, OntoFacts DEF StoreOK
  <2>3. Reaches(p.snap, next + 1) /\ chunk[sid][next] # None /\ Has(sid, next)
    BY <1>3, <2>1 DEF SendsPart, Sending
  <2>4. Has(sid, next + 1)
    BY <1>5, <2>3 DEF Has
  <2>5. next + 1 \in 0 .. ChunkCount
    BY <1>5
  <2>6. Stored(sid)' /\ Has(sid, next)'
    BY <1>2, <1>4, <2>1, <2>2, <2>3, <2>4, <2>5
       DEF Sending, Stored, Reaches, Has, ChunkCount
  <2>7. SendsPart(req[slot])'
    BY <1>4, <2>2 DEF SendsPart
  <2> QED BY <1>4, <1>6, <2>6, <2>7 DEF Sending
<1>9. CASE Stores(r)
  <2> DEFINE x == file.chunks[next + 1]
  <2>1. p.arg = Part(next, x) /\ Reaches(p.snap, next)
    BY <1>3, <1>9 DEF SendsPart, Stores
  <2>2. session' = session /\ chunk' = [chunk EXCEPT ![sid][next] = x]
    BY <1>3, <1>9, <2>1 DEF Stores, SaveChunk, Part
  <2>3. /\ chunk'[sid][next] = x
        /\ \A i \in Index \ {next} : chunk'[sid][i] = chunk[sid][i]
    BY <1>1, <1>4, <1>5, <2>2 DEF StoreOK
  <2>4. \A n \in 0 .. ChunkCount : Has(sid, n) => Has(sid, n)'
    <3>1. \A i \in 0 .. ChunkCount - 1 : chunk[sid][i] # None => chunk'[sid][i] # None
      BY <1>5, <2>3, ChunkFacts
    <3> QED BY <1>4, <1>5, <3>1 DEF Has
  <2>5. Stored(sid)' /\ Has(sid, next)'
    BY <1>2, <1>4, <1>5, <2>2, <2>4 DEF Sending, Stored, Reaches, ChunkCount
  <2>6. CASE \E code : Onto(r, "patch_save", UpdateOffset(p.snap, Size[p.arg.data]), code)
    <3>1. q.pc = "patch_save" /\ q.snap = UpdateOffset(p.snap, Size[x])
      BY <1>1, <2>1, <2>6, OntoFacts DEF Part
    <3>2. q.snap.offset = OffsetOf(file, next) + Size[x]
      BY <1>2, <2>1, <3>1 DEF UpdateOffset, UploadSessions, Reaches
    <3>3. q.snap.offset = OffsetOf(file, next + 1)
      BY <1>5, <3>2, OffsetsAdd DEF ClientInv, ChunkCount
    <3>4. SendsPart(req[slot])'
      BY <1>4, <1>5, <2>3, <3>1, <3>3 DEF SendsPart, Reaches
    <3> QED BY <1>4, <1>6, <2>5, <3>4 DEF Sending
  <2>7. CASE \E code : Onto(r, "release", p.snap, code) /\ code # 200
    <3>1. q.pc = "release" /\ q.status # 200
      BY <1>1, <2>7, OntoFacts
    <3>2. SendsPart(req[slot])'
      BY <1>4, <3>1 DEF SendsPart
    <3> QED BY <1>4, <1>6, <2>5, <3>2 DEF Sending
  <2> QED BY <1>9, <2>6, <2>7 DEF Stores
<1> QED BY <1>4, <1>7, <1>8, <1>9, WorkLabels DEF Advances, Purges, Drops

LEMMA SendingAdvances ==
  ASSUME TypeInv, ClientInv, Exchange, Sending, phase = "send", NEW r \in Req,
         Advances(r), Waits
  PROVE  Sending'
<1>1. CASE r = slot
  BY <1>1, PatchAdvances, IdleFacts
<1>2. CASE r # slot
  <2>1. req[r].on # sid
    BY <1>2, AdvanceFrame, FitFacts DEF Exchange, Sending, OnlyHeads
  <2>2. /\ Stored(sid)' /\ session'[sid] = session[sid] /\ chunk'[sid] = chunk[sid]
        /\ OnlyHeads(sid, slot)' /\ UNCHANGED <<file, slot, sid, next>>
        /\ slot # None => req'[slot] = req[slot]
    BY <1>2, <2>1, StoredElsewhere, AdvanceFrame DEF Sending, Waits, Exchange
  <2>3. Has(sid, next)' /\ (slot = None => Reaches(session[sid], next))'
        /\ (slot # None => SendsPart(req[slot]))'
    BY <2>2 DEF Sending, Has, Reaches, SendsPart
  <2> QED BY <2>2, <2>3 DEF Sending
<1> QED BY <1>1, <1>2

-----------------------------------------------------------------------------
(* It asks how far it got.                                                 *)
LEMMA QueryingSent ==
  ASSUME TypeInv, ClientInv, NEW r \in Req, Send(r), phase = "query",
         Querying \/ QueryingSealed
  PROVE  Querying' \/ QueryingSealed'
<1>1. PICK q : Becomes(r, q) /\ Sent(q)
  BY SendForms
<1>2. /\ UNCHANGED <<session, chunk, file, sid>> /\ ReqOK
      /\ slot' = r /\ sid \in Session
  BY SendForms DEF TypeInv, ClientInv, Phases
<1>3. req'[r] = q /\ \A x \in Req \ {r} : req'[x] = req[x]
  BY <1>1, <1>2 DEF Becomes, ReqOK
<1>4. NewQuery(q)
  BY <1>1 DEF Sent
<1>5. CASE Querying
  <2>1. Stored(sid)' /\ OnlyHeads(sid, None)'
    BY <1>2, <1>3, <1>4, <1>5 DEF Querying, Stored, Reaches, Has, ChunkCount, NewQuery,
       OnlyHeads
  <2> QED BY <1>2, <1>3, <1>4, <2>1 DEF NewQuery, Querying, Told
<1>6. CASE QueryingSealed
  <2>1. Sealed(sid)'
    <3>1. PICK s : s = sid
      OBVIOUS
    <3>2. Sealed(s) /\ phase # "send"
      BY <1>6, <3>1 DEF QueryingSealed
    <3>3. Sealed(s)'
      BY <3>1, <3>2, SealedSent
    <3> QED BY <1>2, <3>1, <3>3 DEF Sealed, Has, NoChunkIn, Reaches, ChunkCount
  <2>2. session[sid] # None => Reaches(session[sid], ChunkCount)
    BY <1>6 DEF QueryingSealed, Sealed
  <2> QED BY <1>2, <1>3, <1>4, <2>1, <2>2
          DEF NewQuery, QueryingSealed, Told, Reaches, ChunkCount
<1> QED BY <1>5, <1>6

(* Nothing happens to what it waits for, or it gives up waiting.           *)
LEMMA QueryingRests ==
  ASSUME TypeInv, Rests, sid' = sid,
         slot' = None \/ (slot' = slot /\ (slot # None => req'[slot] = req[slot])),
         Querying \/ QueryingSealed
  PROVE  Querying' \/ QueryingSealed'
<1>1. CASE Querying
  <2>1. sid \in Session /\ sid # None
    BY <1>1, IdleFacts DEF Querying, Stored, TypeInv, StoreOK
  <2>2. Stored(sid)' /\ OnlyHeads(sid, None)'
    BY <1>1, <2>1, IdleFacts
       DEF Querying, Rests, Stored, Reaches, Has, ChunkCount, OnlyHeads
  <2>3. (Told => req[slot].snap.offset = session[sid].offset)'
    BY <1>1 DEF Querying, Rests, Told
  <2> QED BY <2>2, <2>3 DEF Querying
<1>2. CASE QueryingSealed
  <2>1. PICK s : s = sid
    OBVIOUS
  <2>2. Sealed(s)'
    BY <1>2, <2>1, SealedRests DEF QueryingSealed
  <2>3. Sealed(sid)'
    BY <2>1, <2>2 DEF Sealed, Has, NoChunkIn, Reaches, ChunkCount
  <2>4. (Told => Reaches(req[slot].snap, ChunkCount))'
    BY <1>2 DEF QueryingSealed, Rests, Told, Reaches, ChunkCount
  <2> QED BY <2>3, <2>4 DEF QueryingSealed
<1> QED BY <1>1, <1>2

(* A handler goes on; it is not the one that answers the question.         *)
LEMMA QueryingAdvances ==
  ASSUME TypeInv, Exchange, PurgeInv, phase = "query", NEW r \in Req, Advances(r), Waits,
         Querying \/ QueryingSealed
  PROVE  Querying' \/ QueryingSealed'
<1>1. slot # None => r # slot /\ req'[slot] = req[slot]
  BY AdvanceFrame, FitFacts DEF Exchange, Awaited
<1>2. UNCHANGED <<file, slot, sid>>
  BY DEF Waits
<1>3. CASE Querying
  <2>1. req[r].on # sid
    BY <1>3, AdvanceFrame, FitFacts, IdleFacts DEF Exchange, Querying, OnlyHeads
  <2>2. /\ Stored(sid)' /\ session'[sid] = session[sid] /\ OnlyHeads(sid, None)'
    BY <1>3, <2>1, StoredElsewhere DEF Querying
  <2> QED BY <1>1, <1>2, <1>3, <2>2 DEF Querying, Told
<1>4. CASE QueryingSealed
  <2>1. PICK s : s = sid
    OBVIOUS
  <2>2. Sealed(s)'
    BY <1>2, <1>4, <2>1, SealedAdvances DEF QueryingSealed
  <2>3. Sealed(sid)'
    BY <1>2, <2>1, <2>2 DEF Sealed, Has, NoChunkIn, Reaches, ChunkCount
  <2> QED BY <1>1, <1>2, <1>4, <2>3 DEF QueryingSealed, Told, Reaches, ChunkCount
<1> QED BY <1>3, <1>4

-----------------------------------------------------------------------------
(* What the client takes up next agrees with what is stored.               *)
TakesUp ==
  /\ phase = "send" => Sending
  /\ phase = "query" => Querying \/ QueryingSealed
  /\ phase = "finalize" => Sealed(sid)

(* After an answer that tells the offset stored, which is that of one      *)
(* number of chunks only.                                                  *)
LEMMA GoesOn ==
  ASSUME NoEmptyChunk, TypeInv, ClientInv, Rests, slot' = None,
         Stored(sid), OnlyHeads(sid, None)', GoOnFrom(session[sid].offset)
  PROVE  TakesUp'
<1>1. PICK m \in 0 .. ChunkCount : Reaches(session[sid], m) /\ Has(sid, m)
  BY DEF Stored
<1>2. PICK n \in 0 .. ChunkCount :
        /\ OffsetOf(file, n) = session[sid].offset
        /\ Turn(IF n = ChunkCount THEN "finalize" ELSE "send", n)
  BY DEF GoOnFrom, ChunkCount
<1>3. m = n
  BY <1>1, <1>2, OffsetsDiffer DEF Reaches, ClientInv, ChunkCount
<1>4. sid' = sid /\ next' = n /\ sid \in Session /\ sid # None
  BY <1>2, IdleFacts DEF Turn, Stored, TypeInv, StoreOK
<1>5. Reaches(session[sid], n)' /\ Has(sid, n)' /\ Stored(sid)'
  BY <1>1, <1>3, <1>4 DEF Rests, Reaches, Has, Stored, ChunkCount
<1>6. CASE n = ChunkCount
  <2>1. phase' = "finalize" /\ ChunkCount' = ChunkCount
    BY <1>2, <1>6 DEF Turn, Rests, ChunkCount
  <2>2. Has(sid, ChunkCount)' /\ Reaches(session[sid], ChunkCount)'
    BY <1>5, <1>6, <2>1 DEF Has, Reaches
  <2>3. Sealed(sid)'
    <3>1. \A x \in Req : req'[x].on = sid' => req'[x].op = "head"
      BY IdleFacts DEF OnlyHeads
    <3> QED BY <1>5, <2>2, <3>1 DEF Sealed, Stored
  <2> QED BY <2>1, <2>3 DEF TakesUp
<1>7. CASE n # ChunkCount
  <2>1. phase' = "send"
    BY <1>2, <1>7 DEF Turn
  <2>2. Has(sid, next)' /\ Reaches(session[sid], next)'
    BY <1>4, <1>5 DEF Has, Reaches
  <2>3. Sending'
    BY <1>4, <1>5, <2>2 DEF Sending
  <2> QED BY <2>1, <2>3 DEF TakesUp
<1> QED BY <1>6, <1>7

(* After an answer about a sealed session there is only the finalize left. *)
LEMMA SealedTurns ==
  ASSUME TypeInv, Rests, slot' = None, sid' = sid, Sealed(sid)
  PROVE  Sealed(sid)' /\ QueryingSealed'
<1>1. PICK s : s = sid
  OBVIOUS
<1>2. Sealed(s)'
  BY <1>1, SealedRests
<1>3. Sealed(sid)'
  BY <1>1, <1>2 DEF Sealed, Has, NoChunkIn, Reaches, ChunkCount
<1> QED BY <1>3 DEF QueryingSealed, Told

LEMMA GoesOnSealed ==
  ASSUME NoEmptyChunk, TypeInv, ClientInv, Rests, slot' = None, Sealed(sid),
         NEW offset, offset = OffsetOf(file, ChunkCount), GoOnFrom(offset)
  PROVE  TakesUp'
<1>1. PICK n \in 0 .. ChunkCount :
        /\ OffsetOf(file, n) = offset
        /\ Turn(IF n = ChunkCount THEN "finalize" ELSE "send", n)
  BY DEF GoOnFrom, ChunkCount
<1>2. ChunkCount \in 0 .. ChunkCount
  BY ChunkFacts
<1>3. n = ChunkCount
  BY <1>1, <1>2, OffsetsDiffer DEF ClientInv, ChunkCount
<1>4. phase' = "finalize" /\ sid' = sid
  BY <1>1, <1>3 DEF Turn
<1>5. Sealed(sid)'
  BY <1>4, SealedTurns
<1> QED BY <1>4, <1>5 DEF TakesUp

(* The PATCH it waited for is over: it can ask how far it got.             *)
LEMMA SendingEnds ==
  ASSUME TypeInv, Rests, slot' = None, slot # None, slot \in Req,
         req'[slot] = IdleRequest, sid' = sid, Sending
  PROVE  OnlyHeads(sid, None)' /\ Querying'
<1>1. sid \in Session /\ sid # None
  BY IdleFacts DEF Sending, Stored, TypeInv, StoreOK
<1>2. OnlyHeads(sid, None)'
  BY <1>1, IdleFacts DEF Sending, OnlyHeads, Rests
<1>3. Stored(sid)'
  BY DEF Sending, Stored, Rests, Reaches, Has, ChunkCount
<1> QED BY <1>2, <1>3 DEF Querying, Told

(* It has been given a session.                                            *)
LEMMA FirstSend ==
  ASSUME TypeInv, ClientInv, Exchange, IdsAreNew, Rests, NEW r \in Req, slot = r,
         slot' = None, req'[r] = IdleRequest, phase = "initiate", req[r].pc = "reply",
         req[r].status = 201, phase' = "send", next' = 0, sid' = req[r].on
  PROVE  TakesUp'
<1> DEFINE s == req[r].on
<1>1. /\ req[r].op = "initiate" /\ s \in Session /\ s # None /\ s \in issued
      /\ file \in Files
  BY IdleFacts
     DEF Exchange, Awaited, TypeInv, ReqOK, Shape, ShapeOf, IdsAreNew, ClientInv
<1>2. /\ session[s] # None /\ session[s].offset = 0
      /\ \A x \in Req \ {r} : req[x].on # s
  BY <1>1 DEF IdsAreNew, Brand
<1>3. OnlyHeads(sid, None)'
  BY <1>1, <1>2, IdleFacts DEF OnlyHeads, Rests
<1>4. 0 \in 0 .. ChunkCount /\ OffsetOf(file, 0) = 0
  BY <1>1, OffsetsAdd, ChunkFacts
<1>5. Has(sid, 0)'
  BY DEF Has
<1>6. Reaches(session[sid], 0)'
  BY <1>2, <1>4 DEF Rests, Reaches
<1>7. Stored(sid)'
  BY <1>1, <1>2, <1>4, <1>5, <1>6 DEF Rests, Stored, ChunkCount
<1>8. Sending'
  BY <1>3, <1>5, <1>6, <1>7 DEF Sending, Has, Reaches
<1> QED BY <1>8 DEF TakesUp

(* The client hears an answer.                                             *)
LEMMA HearTakesUp ==
  ASSUME NoEmptyChunk, TypeInv, ClientInv, Exchange, IdsAreNew, TakesUp,
         NEW r \in Req, slot = r, Hear(r)
  PROVE  TakesUp'
<1> DEFINE q == req[r]
<1>1. /\ phase \in Phases /\ slot' = None /\ file' = file /\ r # None
      /\ q.pc = "reply" /\ Awaited(q) /\ Fits(q)
  BY ClientAssumption DEF Hear, ClientInv, Respond, At, Exchange
<1>2. Rests /\ req'[r] = IdleRequest
  BY <1>1, HandlersEnd, EndRests DEF Hear, TypeInv
<1>3. ASSUME phase' \notin {"send", "query", "finalize"} PROVE TakesUp'
  BY <1>3 DEF TakesUp
<1>4. CASE phase = "initiate"
  <2>1. HearInitiate(q)
    BY <1>4 DEF Hear
  <2>2. CASE q.status = 201
    BY <1>1, <1>2, <1>4, <2>1, <2>2, FirstSend DEF HearInitiate
  <2>3. CASE q.status # 201
    BY <1>3, <2>1, <2>3 DEF HearInitiate, Turn
  <2> QED BY <2>2, <2>3
<1>5. CASE phase = "send"
  <2>1. HearPatch(q) /\ Sending
    BY <1>5 DEF Hear, TakesUp
  <2>2. CASE q.status = 200
    <3>1. q.snap.offset = session[sid].offset /\ Stored(sid)
      BY <1>1, <2>1, <2>2 DEF Sending, SendsPart
    <3>2. GoOnFrom(session[sid].offset)
      BY <2>1, <2>2, <3>1 DEF HearPatch
    <3>3. sid' = sid
      BY <3>2 DEF GoOnFrom, Turn
    <3>4. OnlyHeads(sid, None)'
      BY <1>1, <1>2, <2>1, <3>3, SendingEnds
    <3> QED BY <1>1, <1>2, <3>1, <3>2, <3>4, GoesOn
  <2>3. CASE q.status # 200
    <3>1. Turn("initiate", next) \/ Turn("query", next)
      BY <2>1, <2>3 DEF HearPatch
    <3>2. CASE Turn("query", next)
      <4>1. Querying' /\ phase' = "query"
        BY <1>1, <1>2, <2>1, <3>2, SendingEnds DEF Turn
      <4> QED BY <4>1 DEF TakesUp
    <3> QED BY <1>3, <3>1, <3>2 DEF Turn
  <2> QED BY <2>2, <2>3
<1>6. CASE phase = "query"
  <2>1. HearQuery(q) /\ (Querying \/ QueryingSealed)
    BY <1>6 DEF Hear, TakesUp
  <2>2. CASE q.status = 404
    BY <1>3, <2>1, <2>2 DEF HearQuery, Turn
  <2>3. CASE q.status # 404
    <3>1. GoOnFrom(q.snap.offset) /\ Told
      BY <1>1, <1>6, <2>1, <2>3 DEF HearQuery, Told, Fits, Awaited
    <3>2. CASE Querying
      <4>1. /\ Stored(sid) /\ OnlyHeads(sid, None)
            /\ q.snap.offset = session[sid].offset
        BY <3>1, <3>2 DEF Querying
      <4>2. sid \in Session /\ sid # None
        BY <4>1, IdleFacts DEF Stored, TypeInv, StoreOK
      <4>3. sid' = sid
        BY <3>1 DEF GoOnFrom, Turn
      <4>4. OnlyHeads(sid, None)'
        BY <1>2, <4>1, <4>2, <4>3, IdleFacts DEF OnlyHeads, Rests
      <4> QED BY <1>1, <1>2, <3>1, <4>1, <4>4, GoesOn
    <3>3. CASE QueryingSealed
      <4>1. Sealed(sid) /\ q.snap.offset = OffsetOf(file, ChunkCount)
        BY <3>1, <3>3 DEF QueryingSealed, Reaches
      <4> QED BY <1>1, <1>2, <3>1, <4>1, GoesOnSealed
    <3> QED BY <2>1, <3>2, <3>3
  <2> QED BY <2>2, <2>3
<1>7. CASE phase = "finalize"
  <2>1. HearFinalize(q) /\ Sealed(sid)
    BY <1>7 DEF Hear, TakesUp
  <2>2. CASE Turn("query", next)
    <3>1. QueryingSealed' /\ phase' = "query"
      BY <1>1, <1>2, <2>1, <2>2, SealedTurns DEF Turn
    <3> QED BY <3>1 DEF TakesUp
  <2> QED BY <1>3, <2>1, <2>2 DEF HearFinalize, Turn
<1>8. CASE phase = "abort"
  BY <1>3, <1>8 DEF Hear, HearAbort, Turn
<1> QED BY <1>1, <1>4, <1>5, <1>6, <1>7, <1>8 DEF Phases

(* A request it waited for is lost with the worker.                        *)
LEMMA LossTakesUp ==
  ASSUME TypeInv, TakesUp, Rests, slot \in Req, req'[slot] = IdleRequest,
         slot' = None, AfterLoss
  PROVE  TakesUp'
<1>1. sid' = sid /\ slot # None
  BY IdleFacts DEF AfterLoss, Turn
<1>2. CASE phase = "send"
  <2>1. Querying' /\ phase' = "query"
    BY <1>1, <1>2, SendingEnds DEF TakesUp, AfterLoss, Turn
  <2> QED BY <2>1 DEF TakesUp
<1>3. CASE phase = "finalize"
  <2>1. QueryingSealed' /\ phase' = "query"
    BY <1>1, <1>3, SealedTurns DEF TakesUp, AfterLoss, Turn
  <2> QED BY <2>1 DEF TakesUp
<1>4. CASE phase = "query"
  <2>1. (Querying' \/ QueryingSealed') /\ phase' = "query"
    BY <1>1, <1>4, QueryingRests DEF TakesUp, AfterLoss, Turn
  <2> QED BY <2>1 DEF TakesUp
<1>5. CASE phase \notin {"send", "finalize", "query"}
  BY <1>5 DEF TakesUp, AfterLoss, Turn
<1> QED BY <1>2, <1>3, <1>4, <1>5

(* It gives up waiting; one that sends gives up the session, too.          *)
LEMMA TimeoutTakesUp ==
  ASSUME TypeInv, TakesUp, Rests, slot' = None, AfterTimeout, Impatient = FALSE
  PROVE  TakesUp'
<1>1. sid' = sid
  BY DEF AfterTimeout, AfterLoss, Turn
<1>2. CASE phase = "finalize"
  <2>1. QueryingSealed' /\ phase' = "query"
    BY <1>1, <1>2, SealedTurns DEF TakesUp, AfterTimeout, AfterLoss, Turn
  <2> QED BY <2>1 DEF TakesUp
<1>3. CASE phase = "query"
  <2>1. (Querying' \/ QueryingSealed') /\ phase' = "query"
    BY <1>1, <1>3, QueryingRests DEF TakesUp, AfterTimeout, AfterLoss, Turn
  <2> QED BY <2>1 DEF TakesUp
<1>4. CASE phase \notin {"finalize", "query"}
  BY <1>4 DEF TakesUp, AfterTimeout, AfterLoss, Turn
<1> QED BY <1>2, <1>3, <1>4

-----------------------------------------------------------------------------
(* A session that is being finalized is sealed.                            *)
FinalizesSealed == \A r \in Req : req[r].op = "finalize" => Sealed(req[r].on)

Progress == TakesUp /\ FinalizesSealed

(* More is acknowledged to the client, about its own file.                 *)
AcksGrow == acked \subseteq acked' /\ \A a \in acked' : a \in acked \/ a.decl = file.decl

(* Nothing happens to the client, a request it waits for is lost, or it    *)
(* gives up waiting.                                                       *)
StandsBy == Rests /\ AcksGrow /\ Waits /\ (slot # None => req'[slot] = req[slot])
Loses   == /\ Rests /\ AcksGrow /\ slot \in Req /\ req'[slot] = IdleRequest
           /\ slot' = None /\ AfterLoss
GivesUp == Rests /\ AcksGrow /\ slot' = None /\ AfterTimeout

LEMMA AnswersOwn ==
  ASSUME TypeInv, OwnData, NEW r \in Req, Respond(r)
  PROVE  AcksGrow
<1> DEFINE a == [op |-> req[r].op, on |-> req[r].on, decl |-> req[r].snap.decl]
<1>1. acked' = acked \/ (acked' = acked \cup {a} /\ req[r].status \in {200, 204}
                          /\ req[r].op \notin {"patch", "head"} /\ req[r].pc = "reply")
  BY DEF Respond, At
<1>2. req[r].status \in {200, 204} /\ req[r].pc = "reply" => req[r].snap # None
  BY IdleFacts DEF TypeInv, ReqOK, Shape, ShapeOf
<1>3. req[r].snap # None => a.decl = file.decl
  BY DEF OwnData
<1> HIDE DEF a
<1> QED BY <1>1, <1>2, <1>3 DEF AcksGrow

(* Every step of client and service is one of these.                       *)
LEMMA ClientMoves ==
  ASSUME "ttl" \notin Faults, TypeInv, OwnData, [ClientNext]_composedVars
  PROVE  \/ \E r \in Req : Send(r)
         \/ \E r \in Req : (Work(r) \/ Raises(r)) /\ Waits
         \/ \E r \in Req : slot = r /\ Hear(r)
         \/ StandsBy \/ Loses \/ GivesUp
<1>0. ReqOK
  BY DEF TypeInv
<1>1. ASSUME NEW r \in Req, Work(r) /\ UNCHANGED clientVars PROVE Waits
  BY <1>1 DEF clientVars, Waits
<1>2. ASSUME NEW r \in Req, Hear(r), slot # r PROVE StandsBy
  <2>1. Rests /\ \A x \in Req \ {r} : req'[x] = req[x]
    BY <1>0, <1>2, HandlersEnd, EndRests DEF Hear
  <2>2. Waits
    BY <1>2 DEF Hear, Waits
  <2>3. AcksGrow
    BY <1>2, AnswersOwn DEF Hear
  <2>4. slot # None => req'[slot] = req[slot]
    BY <1>2 DEF Hear, Respond, Becomes
  <2> QED BY <2>1, <2>2, <2>3, <2>4 DEF StandsBy
<1>3. ASSUME NEW r \in Req, Suffer(r)
      PROVE  (Raises(r) /\ Waits) \/ StandsBy \/ Loses
  <2>1. CASE Crash(r)
    <3>1. /\ Rests /\ req'[r] = IdleRequest /\ AcksGrow
          /\ \A x \in Req \ {r} : req'[x] = req[x]
      BY <1>0, <1>3, <2>1, HandlersEnd, EndRests DEF Suffer, Crash, histVars, AcksGrow
    <3>2. CASE slot = r /\ AfterLoss /\ slot' = None
      BY <3>1, <3>2 DEF Loses
    <3>3. CASE slot # r /\ UNCHANGED <<phase, slot, sid, next>>
      <4>1. slot # None => req'[slot] = req[slot]
        BY <2>1, <3>3 DEF Crash, Becomes
      <4>2. Waits
        BY <1>3, <3>3 DEF Suffer, Waits
      <4> QED BY <3>1, <4>1, <4>2 DEF StandsBy
    <3>4. CASE Raises(r) /\ UNCHANGED <<phase, slot, sid, next>>
      BY <1>3, <3>4 DEF Suffer, Waits
    <3> QED BY <1>3, <3>2, <3>3, <3>4 DEF Suffer, Raises
  <2>2. CASE Raises(r) /\ UNCHANGED <<phase, slot, sid, next>>
    BY <1>3, <2>2, HandlersMove DEF Suffer, Waits
  <2> QED BY <1>3, <2>1, <2>2 DEF Suffer, Raises
<1>4. ASSUME NEW s \in Session, TTL(s) PROVE StandsBy
  BY <1>0, <1>4
     DEF TTL, LockExpires, clientVars, s3Vars, histVars, StandsBy, Rests, AcksGrow, Waits
<1>5. CASE TimesOut
  BY <1>0, <1>5 DEF TimesOut, vars, redisVars, s3Vars, histVars, GivesUp, Rests, AcksGrow
<1>6. CASE UNCHANGED composedVars
  BY <1>0, <1>6
     DEF composedVars, clientVars, vars, redisVars, s3Vars, histVars, StandsBy, Rests,
         AcksGrow, Waits
<1>7. ASSUME NEW s \in Session, Expires(s) PROVE FALSE
  BY <1>7 DEF Expires, KeyExpires
<1> QED BY <1>1, <1>2, <1>3, <1>4, <1>5, <1>6, <1>7 DEF ClientNext, Serve

-----------------------------------------------------------------------------
(* Sealed sessions stay sealed, whichever the step is.                     *)
LEMMA SealedKept ==
  ASSUME TypeInv, Exchange, PurgeInv, NEW s, Sealed(s),
         \/ \E r \in Req : Send(r) /\ (sid = s => phase # "send")
         \/ \E r \in Req : Advances(r) /\ Waits
         \/ Rests
  PROVE  Sealed(s)'
BY SealedRests, SealedSent, SealedAdvances DEF Waits

(* The session the client is about to finalize.                            *)
LEMMA OwnSealedKept ==
  ASSUME TypeInv, Exchange, PurgeInv, Sealed(sid), sid' = sid,
         \/ \E r \in Req : Send(r) /\ phase # "send"
         \/ \E r \in Req : Advances(r) /\ Waits
         \/ Rests
  PROVE  Sealed(sid)'
<1>1. PICK s : s = sid
  OBVIOUS
<1>2. Sealed(s)'
  BY <1>1, SealedKept
<1> QED BY <1>1, <1>2 DEF Sealed, Has, NoChunkIn, Reaches, ChunkCount

(* The sessions that are being finalized.                                  *)
LEMMA FinalizesKept ==
  ASSUME TypeInv, Exchange, PurgeInv, FinalizesSealed,
         \A r \in Req : req'[r].op = "finalize" =>
           req'[r].op = req[r].op /\ req'[r].on = req[r].on,
         (\E r \in Req : Advances(r) /\ Waits) \/ Rests
  PROVE  FinalizesSealed'
<1> SUFFICES ASSUME NEW r \in Req, req'[r].op = "finalize"
             PROVE  Sealed(req[r].on)'
  BY DEF FinalizesSealed
<1>1. PICK s : s = req[r].on
  OBVIOUS
<1>2. Sealed(s) /\ s = req'[r].on
  BY <1>1 DEF FinalizesSealed
<1>3. Sealed(s)'
  BY <1>2, SealedKept
<1> QED BY <1>2, <1>3 DEF Sealed, Has, NoChunkIn, Reaches, ChunkCount

LEMMA ProgressSent ==
  ASSUME TypeInv, ClientInv, Exchange, PurgeInv, Progress, NEW r \in Req, Send(r)
  PROVE  Progress'
<1>1. PICK q : Becomes(r, q) /\ Sent(q)
  BY SendForms
<1>2. slot = None /\ phase' = phase /\ sid' = sid /\ ReqOK /\ None \notin Req
  BY SendForms, IdleFacts DEF TypeInv
<1>3. req'[r] = q /\ \A x \in Req \ {r} : req'[x] = req[x]
  BY <1>1, <1>2 DEF Becomes, ReqOK
<1>4. phase = "finalize" => Sealed(sid)'
  BY <1>2, OwnSealedKept DEF Progress, TakesUp
<1>5. TakesUp'
  BY <1>2, <1>4, SendingSent, QueryingSent DEF Progress, TakesUp
<1>6. ASSUME NEW x \in Req, req'[x].op = "finalize"
      PROVE  Sealed(req[x].on)'
  <2>1. CASE x = r
    <3>1. phase = "finalize" /\ q.on = sid
      BY <1>1, <1>3, <1>6, <2>1 DEF Sent, NewInitiate, NewPatch, NewQuery, NewLocked
    <3>2. Sealed(sid)' /\ req'[x].on = sid'
      BY <1>2, <1>3, <1>4, <2>1, <3>1
    <3> QED BY <3>2 DEF Sealed, Has, NoChunkIn, Reaches, ChunkCount
  <2>2. CASE x # r
    <3>1. PICK s : s = req[x].on
      OBVIOUS
    <3>2. Sealed(s) /\ req[x].op = "finalize" /\ s = req'[x].on
      BY <1>3, <1>6, <2>2, <3>1 DEF Progress, FinalizesSealed
    <3>3. sid = s => phase # "send"
      BY <1>2, <3>1, <3>2 DEF Progress, TakesUp, Sending, OnlyHeads
    <3>4. Sealed(s)'
      BY <3>2, <3>3, SealedKept
    <3> QED BY <3>2, <3>4 DEF Sealed, Has, NoChunkIn, Reaches, ChunkCount
  <2> QED BY <2>1, <2>2
<1> QED BY <1>5, <1>6 DEF Progress, FinalizesSealed

LEMMA ProgressAdvances ==
  ASSUME TypeInv, ClientInv, Exchange, PurgeInv, Progress, NEW r \in Req, Advances(r), Waits
  PROVE  Progress'
<1>1. phase' = phase /\ sid' = sid
  BY DEF Waits
<1>2. phase = "finalize" => Sealed(sid)'
  BY <1>1, OwnSealedKept DEF Progress, TakesUp
<1>3. TakesUp'
  BY <1>1, <1>2, SendingAdvances, QueryingAdvances DEF Progress, TakesUp
<1>4. \A x \in Req : req'[x].op = req[x].op /\ req'[x].on = req[x].on
  BY AdvanceFrame
<1> QED BY <1>3, <1>4, FinalizesKept DEF Progress

LEMMA ProgressRests ==
  ASSUME NoEmptyChunk, Impatient = FALSE,
         TypeInv, ClientInv, Exchange, IdsAreNew, PurgeInv, Progress,
         \/ \E r \in Req : slot = r /\ Hear(r)
         \/ StandsBy \/ Loses \/ GivesUp
  PROVE  Progress'
<1>1. Rests
  <2>1. ASSUME NEW r \in Req, Hear(r) PROVE Rests
    BY <2>1, HandlersEnd, EndRests DEF Hear, TypeInv
  <2> QED BY <2>1 DEF StandsBy, Loses, GivesUp
<1>2. TakesUp'
  <2>1. CASE StandsBy
    <3>1. phase' = phase /\ sid' = sid /\ slot' = slot
      BY <2>1 DEF StandsBy, Waits
    <3>2. phase = "finalize" => Sealed(sid)'
      BY <1>1, <3>1, OwnSealedKept DEF Progress, TakesUp
    <3>3. phase = "send" => Sending'
      BY <1>1, <2>1, SendingRests DEF Progress, TakesUp, StandsBy
    <3>4. phase = "query" => Querying' \/ QueryingSealed'
      BY <1>1, <2>1, <3>1, QueryingRests DEF Progress, TakesUp, StandsBy
    <3> QED BY <3>1, <3>2, <3>3, <3>4 DEF TakesUp
  <2> QED BY <2>1, HearTakesUp, LossTakesUp, TimeoutTakesUp DEF Progress, Loses, GivesUp
<1>3. \A x \in Req : req'[x].op = "finalize" => req'[x] = req[x]
  BY <1>1, IdleFacts DEF Rests
<1> QED BY <1>1, <1>2, <1>3, FinalizesKept DEF Progress

-----------------------------------------------------------------------------
(* Assembly.  A finalize reads all chunks of its sealed session in order,  *)
(* or none, and S3 refuses to complete an upload of none.                  *)
PcAssembly == {"final_lock", "scan", "s3_initiate", "s3_part", "s3_complete"}

Assembles(q, c) ==
  /\ q.pc \in {"final_lock", "scan", "s3_initiate"} => q.parts = <<>>
  /\ q.pc = "s3_part" =>
       IsPrefixOf(q.parts, file.chunks) /\ (NoChunkIn(q.on, c) => q.parts = <<>>)
  /\ q.pc = "s3_complete" => q.parts \in {<<>>, file.chunks}

WholeObjects ==
  \A k \in Key : object[k] # None => k = ObjectKey(file.decl) /\ object[k] = file.chunks

Assembled == (\A r \in Req : Assembles(req[r], chunk)) /\ WholeObjects

(* Other steps lead elsewhere.                                             *)
LEMMA OtherLabels ==
  ASSUME TypeInv, NEW r \in Req, Work(r) \/ Raises(r),
         ~FinalizeLock(r), ~Scan(r), ~S3Initiate(r), ~S3Part(r)
  PROVE  req'[r].pc \notin PcAssembly
<1> DEFINE p == req[r]
<1>1. ReqOK /\ Advances(r) /\ PcAssembly \subseteq PcFinalize
  BY HandlersMove, WorkLabels DEF TypeInv, PcAssembly
<1>2. ASSUME NEW label, NEW u, NEW code, Onto(r, label, u, code), label \notin PcAssembly
      PROVE  req'[r].pc \notin PcAssembly
  BY <1>1, <1>2, OntoFacts
<1>3. \A label, u, code : Onto(r, label, u, code) /\ label \notin PcAssembly
                           => req'[r].pc \notin PcAssembly
  BY <1>2
<1>4. CASE p.pc \notin PcFinalize
  <2>1. CASE NoWrite(r)
    <3>1. PICK label, u, code : Onto(r, label, u, code) /\ Leads(p, label, code)
      BY <2>1 DEF NoWrite
    <3>2. label \notin PcAssembly
      BY <1>1, <1>4, <3>1 DEF Leads
    <3> QED BY <1>3, <3>1, <3>2
  <2>2. CASE Saves(r) \/ Stores(r) \/ Purges(r) \/ Drops(r)
    BY <1>3, <2>2 DEF Saves, Stores, Purges, Drops, PcAssembly
  <2> QED BY <1>1, <2>1, <2>2 DEF Advances
<1>5. /\ \A label : Go(r, label) => Onto(r, label, p.snap, p.status)
      /\ \A label, v : GoWith(r, label, v) => Onto(r, label, v, p.status)
      /\ \A code : Leave(r, code) => Onto(r, "release", p.snap, code)
      /\ \A code, v : Conclude(r, code, v) => Onto(r, "purge_scan", v, code)
      /\ \A code : Answer(r, code) => Onto(r, "reply", p.snap, code)
  BY <1>1, OntoForms
<1>6. ASSUME \/ \E label \in {"register", "s3_abort", "publish"} : Go(r, label)
             \/ \E v : GoWith(r, "fail_save", v)
             \/ \E code : Leave(r, code) \/ Answer(r, code)
             \/ \E code, v : Conclude(r, code, v)
      PROVE  req'[r].pc \notin PcAssembly
  BY <1>3, <1>5, <1>6 DEF PcAssembly
<1>7. CASE \/ MalwareSave(r) \/ S3Complete(r) \/ S3Abort(r) \/ FailSave(r)
           \/ Register(r) \/ Publish(r)
  BY <1>6, <1>7 DEF MalwareSave, S3Complete, S3Abort, FailSave, Register, Publish
<1>8. CASE Raises(r)
  BY <1>6, <1>8
     DEF Raises, RedisRaises, Cancel, CutShort, S3Raises, S3AbortFails, PublishRaises
<1>9. CASE InitiateSave(r) \/ PatchStep(r) \/ AbortLock(r) \/ CleanUpStep(r)
  <2>1. p.pc \notin PcFinalize
    BY <1>9, WorkLabels
       DEF InitiateSave, PatchStep, PatchLock, PatchStore, PatchSave, AbortLock,
           CleanUpStep, PurgeScan, PurgeDelete, Drop, Release, At
  <2> QED BY <1>4, <2>1
<1> QED BY <1>7, <1>8, <1>9 DEF Work, FinalizeStep

(* No other request touches the chunks that a finalize sends.              *)
LEMMA AssemblyUndisturbed ==
  ASSUME TypeInv, MutualExclusion, NEW r \in Req, Advances(r),
         NEW x \in Req \ {r}, req[x].pc = "s3_part"
  PROVE  chunk'[req[x].on] = chunk[req[x].on]
<1>1. ReqOK /\ req[x].pc \in PcCritical /\ req[x].on \in Session
  BY CriticalLabels, InsideFacts DEF TypeInv
<1>2. CASE req[r].on # req[x].on
  BY <1>1, <1>2, AdvanceFrame
<1>3. CASE req[r].on = req[x].on
  <2>1. req[r].pc \notin {"patch_store", "purge_delete"}
    BY <1>1, <1>3, CriticalLabels DEF MutualExclusion, Holds
  <2> QED BY <2>1 DEF Advances, NoWrite, Saves, Stores, Purges, Drops
<1> QED BY <1>2, <1>3

(* What a finalize sends, and the parts it completes.                      *)
LEMMA SendsAll ==
  ASSUME NoEmptyChunk, TypeInv, ClientInv, OwnData, FinalizesSealed, Exchange, Assembled,
         NEW r \in Req, S3Part(r)
  PROVE  \E q : Becomes(r, q) /\ Assembles(q, chunk')
<1> DEFINE s == req[r].on
           parts == req[r].parts
           i == Len(parts)
<1>1. /\ ReqOK /\ StoreOK /\ req[r] \in Requests /\ req[r].pc = "s3_part"
      /\ chunk' = chunk
  BY DEF TypeInv, S3Part, At, redisVars, ReqOK
<1>2. /\ s \in Session /\ parts \in Seq(Payload) /\ i \in Nat
      /\ IsPrefixOf(parts, file.chunks) /\ (NoChunkIn(s, chunk) => parts = <<>>)
  BY <1>1, PcTypes, InsideFacts DEF Assembled, Assembles
<1>3. /\ ChunkCount \in Nat /\ file.chunks \in Seq(Payload) /\ file \in Files
      /\ \A j \in 0 .. ChunkCount - 1 : j \in Index
  BY ChunkFacts, ClientAssumption DEF ClientInv, ClientFiles
<1>4. CASE HasChunk(s, i) /\ UploadPart(r, chunk[s][i])
  <2> DEFINE c == chunk[s][i]
             more == Append(parts, c)
             q == [req[r] EXCEPT !.parts = more]
  <2>1. q.pc = "s3_part" /\ q.on = s /\ q.parts = more
    BY <1>1 DEF Requests
  <2>2. Becomes(r, q)
    BY <1>4 DEF UploadPart
  <2> HIDE DEF q
  <2>3. i \in Index /\ c # None
    BY <1>4 DEF HasChunk
  <2>4. i \in 0 .. ChunkCount - 1 /\ c = file.chunks[i + 1]
    BY <1>2, <2>3 DEF OwnData
  <2>5. IsPrefixOf(more, file.chunks)
    <3>1. Len(more) = i + 1 /\ more[i + 1] = c /\ \A j \in 1 .. i : more[j] = parts[j]
      BY <1>2, <1>3, <2>4, ChunkFacts
    <3> HIDE DEF more
    <3>2. i <= Len(file.chunks) /\ \A j \in 1 .. i : parts[j] = file.chunks[j]
      BY <1>2 DEF IsPrefixOf
    <3>3. Len(more) <= Len(file.chunks) /\ \A j \in 1 .. Len(more) : more[j] = file.chunks[j]
      BY <1>2, <1>3, <2>4, <3>1, <3>2 DEF ChunkCount
    <3> QED BY <3>3 DEF IsPrefixOf
  <2>6. ~NoChunkIn(s, chunk)
    BY <2>3 DEF NoChunkIn
  <2>7. Assembles(q, chunk')
    BY <1>1, <2>1, <2>5, <2>6 DEF Assembles
  <2> QED BY <2>2, <2>7
<1>5. CASE ~HasChunk(s, i) /\ Go(r, "s3_complete")
  <2>0. Keeps(r, "s3_complete")
    BY <1>1, <1>5, KeepsForms
  <2>1. PICK q : Becomes(r, q) /\ q.pc = "s3_complete" /\ q.parts = parts
    BY <2>0 DEF Keeps
  <2>2. Sealed(s)
    BY <1>1, WorkLabels DEF Exchange, Fits, FinalizesSealed
  <2>3. CASE NoChunkIn(s, chunk)
    BY <1>2, <2>1, <2>3 DEF Assembles
  <2>4. CASE Has(s, ChunkCount)
    <3>1. \A j \in 0 .. ChunkCount - 1 : HasChunk(s, j)
      <4>1. ASSUME NEW j \in 0 .. ChunkCount - 1 PROVE HasChunk(s, j)
        <5>1. j \in Index /\ chunk[s][j] # None
          BY <1>3, <2>4 DEF Has
        <5>2. chunk[s][j] = file.chunks[j + 1]
          BY <1>2, <5>1 DEF OwnData
        <5>3. j + 1 \in 1 .. Len(file.chunks)
          BY <1>3 DEF ChunkCount
        <5>4. Size[file.chunks[j + 1]] > 0
          BY <1>3, <5>3 DEF NoEmptyChunk
        <5> QED BY <5>1, <5>2, <5>4 DEF HasChunk
      <4> QED BY <4>1
    <3>2. i >= ChunkCount
      BY <1>2, <1>3, <1>5, <3>1
    <3>3. parts = file.chunks
      <4>1. i <= Len(file.chunks) /\ \A j \in 1 .. i : parts[j] = file.chunks[j]
        BY <1>2 DEF IsPrefixOf
      <4>2. i = Len(file.chunks)
        BY <1>2, <1>3, <3>2, <4>1 DEF ChunkCount
      <4> QED BY <1>2, <1>3, <4>1, <4>2
    <3> QED BY <2>1, <3>3 DEF Assembles
  <2> QED BY <2>2, <2>3, <2>4 DEF Sealed
<1> QED BY <1>4, <1>5 DEF S3Part

(* A step of a finalize up to the completion.                              *)
LEMMA AssemblySteps ==
  ASSUME NoEmptyChunk, TypeInv, ClientInv, OwnData, FinalizesSealed, Exchange, Assembled,
         NEW r \in Req, FinalizeLock(r) \/ Scan(r) \/ S3Initiate(r) \/ S3Part(r)
  PROVE  \E q : Becomes(r, q) /\ Assembles(q, chunk')
<1> DEFINE parts == req[r].parts
<1>1. ReqOK /\ req[r] \in Requests /\ Assembles(req[r], chunk)
  BY DEF TypeInv, ReqOK, Assembled
<1>2. ASSUME NEW label \in {"scan", "s3_initiate", "s3_part", "mal_save"}, Keeps(r, label),
             parts = <<>>
      PROVE  \E q : Becomes(r, q) /\ Assembles(q, chunk')
  <2>1. PICK q : Becomes(r, q) /\ q.pc = label /\ q.parts = <<>>
    BY <1>2 DEF Keeps
  <2>2. IsPrefixOf(<<>>, file.chunks)
    BY ChunkFacts DEF IsPrefixOf, ChunkCount
  <2> QED BY <2>1, <2>2 DEF Assembles
<1>3. CASE FinalizeLock(r)
  <2>1. parts = <<>>
    BY <1>1, <1>3 DEF FinalizeLock, At, Assembles
  <2>2. CASE Go(r, "scan")
    BY <1>1, <1>2, <2>1, <2>2, KeepsForms
  <2>3. ASSUME NEW code, Answer(r, code) PROVE \E q : Becomes(r, q) /\ Assembles(q, chunk')
    <3> DEFINE q == NewRequest("reply", req[r].op, req[r].on, req[r].snap, None, code)
    <3>1. q.pc = "reply"
      BY DEF NewRequest
    <3>2. Becomes(r, q)
      BY <2>3 DEF Answer
    <3> HIDE DEF q
    <3>3. Assembles(q, chunk')
      BY <3>1 DEF Assembles
    <3> QED BY <3>2, <3>3
  <2> QED BY <1>3, <2>2, <2>3 DEF FinalizeLock
<1>4. CASE Scan(r)
  <2>1. parts = <<>> /\ req[r].pc = "scan"
    BY <1>1, <1>4 DEF Scan, At, Assembles
  <2>2. CASE Go(r, "s3_initiate") \/ GoWith(r, "mal_save", Failed(req[r].snap))
    <3>1. Keeps(r, "s3_initiate") \/ Keeps(r, "mal_save")
      BY <1>1, <2>2, KeepsForms
    <3> QED BY <1>2, <2>1, <3>1
  <2>3. ASSUME NEW x, Becomes(r, [req[r] EXCEPT !.seen = x])
        PROVE  \E q : Becomes(r, q) /\ Assembles(q, chunk')
    <3> DEFINE q == [req[r] EXCEPT !.seen = x]
    <3>1. q.pc = "scan" /\ q.parts = <<>>
      BY <1>1, <2>1 DEF Requests
    <3>2. Becomes(r, q)
      BY <2>3
    <3> HIDE DEF q
    <3>3. Assembles(q, chunk')
      BY <3>1 DEF Assembles
    <3> QED BY <3>2, <3>3
  <2> QED BY <1>4, <2>2, <2>3 DEF Scan
<1>5. CASE S3Initiate(r)
  <2>1. parts = <<>>
    BY <1>1, <1>5 DEF S3Initiate, At, Assembles
  <2>2. Keeps(r, "s3_part")
    BY <1>1, <1>5, KeepsForms DEF S3Initiate
  <2> QED BY <1>2, <2>1, <2>2
<1> QED BY <1>3, <1>4, <1>5, SendsAll

(* Only the completion of an upload makes an object.                       *)
LEMMA ObjectSteps ==
  ASSUME NEW r \in Req, Work(r) \/ Raises(r)
  PROVE  \/ object' = object
         \/ /\ req[r].pc = "s3_complete" /\ req[r].parts # <<>>
            /\ object' = [object EXCEPT ![ObjectKey(req[r].snap.decl)] = req[r].parts]
<1>1. CASE S3Complete(r) \/ S3Raises(r)
  BY <1>1
     DEF S3Complete, S3Raises, At, CompleteMultipart, OpenMultipart, Assemblable, s3Vars
<1>2. CASE ~S3Complete(r) /\ ~S3Raises(r)
  BY <1>2
     DEF Work, InitiateSave, PatchStep, PatchLock, PatchStore, PatchSave, AbortLock,
         FinalizeStep, FinalizeLock, Scan, MalwareSave, S3Initiate, S3Part, S3Abort,
         FailSave, Register, Publish, CleanUpStep, PurgeScan, PurgeDelete, Drop, Release,
         Raises, RedisRaises, Cancel, CutShort, S3AbortFails, PublishRaises,
         OpenMultipart, s3Vars
<1> QED BY <1>1, <1>2

(* A handler goes on.                                                      *)
LEMMA AssembledAdvances ==
  ASSUME NoEmptyChunk, TypeInv, MutualExclusion, ClientInv, OwnData, FinalizesSealed,
         Exchange, Assembled, NEW r \in Req, Work(r) \/ Raises(r), file' = file
  PROVE  Assembled'
<1>1. /\ ReqOK /\ object \in [Key -> {None} \cup Seq(Payload)] /\ Advances(r)
      /\ req[r].snap.decl = file.decl
  BY HandlersMove, AdvanceFrame, IdleFacts DEF TypeInv, StoreOK, OwnData
<1>2. Assembles(req'[r], chunk')
  <2>1. CASE FinalizeLock(r) \/ Scan(r) \/ S3Initiate(r) \/ S3Part(r)
    BY <1>1, <2>1, AssemblySteps DEF Becomes, ReqOK
  <2>2. CASE ~(FinalizeLock(r) \/ Scan(r) \/ S3Initiate(r) \/ S3Part(r))
    BY <2>2, OtherLabels DEF PcAssembly, Assembles
  <2> QED BY <2>1, <2>2
<1>3. \A x \in Req \ {r} : req'[x] = req[x] /\ Assembles(req[x], chunk')
  <2>1. ASSUME NEW x \in Req \ {r} PROVE req'[x] = req[x] /\ Assembles(req[x], chunk')
    <3>1. req'[x] = req[x] /\ Assembles(req[x], chunk)
      BY <1>1, AdvanceFrame DEF Assembled
    <3>2. req[x].pc = "s3_part" => chunk'[req[x].on] = chunk[req[x].on]
      BY <1>1, AssemblyUndisturbed
    <3> QED BY <3>1, <3>2 DEF Assembles, NoChunkIn
  <2> QED BY <2>1
<1>4. \A k \in Key : object'[k] # None =>
        k = ObjectKey(file.decl) /\ object'[k] = file.chunks
  <2>1. CASE object' = object
    BY <2>1 DEF Assembled, WholeObjects
  <2>2. CASE /\ req[r].pc = "s3_complete" /\ req[r].parts # <<>>
             /\ object' = [object EXCEPT ![ObjectKey(req[r].snap.decl)] = req[r].parts]
    <3>1. req[r].parts = file.chunks
      BY <2>2 DEF Assembled, Assembles
    <3> QED BY <1>1, <2>2, <3>1 DEF Assembled, WholeObjects
  <2> QED BY <2>1, <2>2, ObjectSteps
<1>5. WholeObjects'
  BY <1>4 DEF WholeObjects
<1>6. \A x \in Req : Assembles(req'[x], chunk')
  BY <1>2, <1>3
<1> QED BY <1>5, <1>6 DEF Assembled, Assembles

LEMMA AssembledSent ==
  ASSUME TypeInv, Assembled, NEW r \in Req, Send(r)
  PROVE  Assembled'
<1>1. PICK q : Becomes(r, q) /\ Sent(q)
  BY SendForms
<1>2. UNCHANGED <<chunk, object, file>> /\ ReqOK
  BY SendForms DEF TypeInv
<1>3. req'[r] = q /\ \A x \in Req \ {r} : req'[x] = req[x]
  BY <1>1, <1>2 DEF Becomes, ReqOK
<1>4. q.pc \in {"reply", "init_save", "patch_lock", "final_lock", "abort_lock"}
      /\ q.parts = <<>>
  BY <1>1 DEF Sent, NewInitiate, NewPatch, NewQuery, NewLocked
<1>5. Assembles(q, chunk)
  BY <1>4 DEF Assembles
<1>6. \A x \in Req : Assembles(req'[x], chunk)
  BY <1>3, <1>5 DEF Assembled
<1> QED BY <1>2, <1>6 DEF Assembled, Assembles, WholeObjects

LEMMA AssembledRests ==
  ASSUME Rests, Assembled
  PROVE  Assembled'
<1>1. \A c : Assembles(IdleRequest, c)
  BY IdleFacts DEF Assembles
<1>2. \A x \in Req : Assembles(req'[x], chunk)
  BY <1>1 DEF Rests, Assembled
<1> QED BY <1>2 DEF Rests, Assembled, Assembles, WholeObjects

-----------------------------------------------------------------------------
(* The client is done when it was told so: of a finalize, or of a file     *)
(* already there.                                                          *)
LEMMA HearsOutcome ==
  ASSUME TypeInv, ClientInv, Exchange, NEW r \in Req, slot = r, Hear(r)
  PROVE  /\ phase' = "done" => \E a \in acked' : a.op \in {"finalize", "initiate"}
         /\ \/ sid' = sid
            \/ sid' = req[r].on /\ sid' # None /\ req[r].op = "initiate"
<1> DEFINE q == req[r]
<1>1. /\ phase \in Phases /\ Awaited(q) /\ Respond(r) /\ q.pc = "reply"
      /\ q.status # 200 => q.on \in Session
  BY ClientAssumption
     DEF ClientInv, Exchange, Hear, Respond, At, TypeInv, ReqOK, Shape, ShapeOf
<1>2. ASSUME q.status = 200, q.op \in {"finalize", "initiate"}
      PROVE  \E a \in acked' : a.op \in {"finalize", "initiate"}
  <2> DEFINE a == [op |-> q.op, on |-> q.on, decl |-> q.snap.decl]
  <2>1. a \in acked' /\ a.op \in {"finalize", "initiate"}
    BY <1>1, <1>2 DEF Respond
  <2> QED BY <2>1
<1>3. \A offset : GoOnFrom(offset) => phase' # "done" /\ sid' = sid
  BY DEF GoOnFrom, Turn
<1>4. CASE phase = "initiate"
  <2>1. HearInitiate(q) /\ q.op = "initiate"
    BY <1>1, <1>4 DEF Hear, Awaited
  <2> QED BY <1>1, <1>2, <2>1, IdleFacts DEF HearInitiate, Turn
<1>5. CASE phase = "finalize"
  <2>1. HearFinalize(q) /\ q.op = "finalize"
    BY <1>1, <1>5 DEF Hear, Awaited
  <2> QED BY <1>2, <2>1 DEF HearFinalize, Turn
<1>6. CASE phase \in {"send", "query", "abort"}
  <2>1. HearPatch(q) \/ HearQuery(q) \/ HearAbort(q)
    BY <1>6 DEF Hear
  <2> QED BY <1>3, <2>1 DEF HearPatch, HearQuery, HearAbort, Turn
<1> QED BY <1>1, <1>4, <1>5, <1>6 DEF Phases

-----------------------------------------------------------------------------
(* All of it.                                                              *)
WholeInv == OwnData /\ Exchange /\ IdsAreNew /\ Progress /\ Assembled

ServiceInv == TypeInv /\ LockInv /\ BirthInv /\ PurgeInv

LEMMA WholeSent ==
  ASSUME ServiceInv, ClientInv, WholeInv, NEW r \in Req, Send(r)
  PROVE  WholeInv'
BY OwnDataSent, ExchangeSent, IdsSent, ProgressSent, AssembledSent DEF ServiceInv, WholeInv

LEMMA WholeAdvances ==
  ASSUME NoEmptyChunk, ServiceInv, ClientInv, WholeInv,
         NEW r \in Req, Work(r) \/ Raises(r), Waits
  PROVE  WholeInv'
<1>1. Advances(r) /\ file' = file
  BY HandlersMove DEF ServiceInv, Waits
<1>2. OwnData' /\ Exchange' /\ IdsAreNew'
  BY <1>1, OwnDataAdvances, ExchangeAdvances, IdsAdvance DEF ServiceInv, WholeInv
<1>3. Progress'
  BY <1>1, ProgressAdvances DEF ServiceInv, WholeInv
<1>4. Assembled'
  BY <1>1, AssembledAdvances DEF ServiceInv, LockInv, WholeInv, Progress
<1> QED BY <1>2, <1>3, <1>4 DEF WholeInv

LEMMA WholeRests ==
  ASSUME NoEmptyChunk, Impatient = FALSE, ServiceInv, ClientInv, WholeInv,
         \/ \E r \in Req : slot = r /\ Hear(r)
         \/ StandsBy \/ Loses \/ GivesUp
  PROVE  WholeInv'
<1>1. /\ Rests /\ AcksGrow
      /\ slot' = None \/ (Waits /\ (slot # None => req'[slot] = req[slot]))
      /\ phase' = "done" => \/ phase = "done"
                            \/ \E a \in acked' : a.op \in {"finalize", "initiate"}
      /\ \/ sid' = sid
         \/ \E r \in Req : /\ sid' = req[r].on /\ sid' # None
                           /\ req[r].op = "initiate" /\ req'[r] = IdleRequest
  <2>1. ASSUME NEW r \in Req, slot = r, Hear(r)
        PROVE  /\ Rests /\ AcksGrow /\ slot' = None /\ req'[r] = IdleRequest
    BY <2>1, HandlersEnd, EndRests, AnswersOwn DEF Hear, ServiceInv, TypeInv, WholeInv
  <2>2. ASSUME NEW r \in Req, slot = r, Hear(r)
        PROVE  /\ phase' = "done" => \E a \in acked' : a.op \in {"finalize", "initiate"}
               /\ sid' = sid \/ (sid' = req[r].on /\ sid' # None /\ req[r].op = "initiate")
    BY <2>2, HearsOutcome DEF ServiceInv, WholeInv
  <2>3. CASE StandsBy
    BY <2>3 DEF StandsBy, Waits
  <2>4. CASE Loses \/ GivesUp
    BY <2>4 DEF Loses, GivesUp, AfterTimeout, AfterLoss, Turn
  <2> QED BY <2>1, <2>2, <2>3, <2>4
<1>2. OwnData'
  BY <1>1, OwnDataRests DEF ServiceInv, WholeInv, AcksGrow
<1>3. Exchange'
  BY <1>1, ExchangeRests DEF WholeInv, AcksGrow
<1>4. IdsAreNew'
  BY <1>1, IdsRest DEF WholeInv
<1>5. Progress'
  BY ProgressRests DEF ServiceInv, WholeInv
<1>6. Assembled'
  BY <1>1, AssembledRests DEF WholeInv
<1> QED BY <1>2, <1>3, <1>4, <1>5, <1>6 DEF WholeInv

LEMMA WholeStep ==
  ASSUME "ttl" \notin Faults, NoEmptyChunk, Impatient = FALSE
  PROVE  ServiceInv /\ ClientInv /\ WholeInv /\ [ClientNext]_composedVars => WholeInv'
<1> SUFFICES ASSUME ServiceInv, ClientInv, WholeInv, [ClientNext]_composedVars
             PROVE  WholeInv'
  OBVIOUS
<1> QED BY ClientMoves, WholeSent, WholeAdvances, WholeRests DEF ServiceInv, WholeInv

LEMMA WholeInit == ClientInit => ServiceInv /\ ClientInv /\ WholeInv
<1> SUFFICES ASSUME ClientInit PROVE ServiceInv /\ ClientInv /\ WholeInv
  OBVIOUS
<1>1. Init /\ phase = "initiate" /\ slot = None /\ sid = None /\ file \in Files
  BY DEF ClientInit
<1>2. ServiceInv
  BY <1>1, InitType, NobodyAtFirst, PurgeInit
     DEF ServiceInv, LockInv, HoldersHaveLock, MutualExclusion
<1>3. ClientInv
  BY <1>1 DEF ClientInv, Phases
<1>4. /\ \A r \in Req : req[r] = IdleRequest
      /\ \A s \in Session : session[s] = None
      /\ \A s \in Session, i \in Index : chunk[s][i] = None
      /\ \A k \in Key : object[k] = None
      /\ acked = {}
  BY <1>1 DEF Init, InitState
<1>5. OwnData
  BY <1>4, IdleFacts, WorkLabels DEF OwnData
<1>6. Exchange
  BY <1>1, <1>4, FitsIdle DEF Exchange
<1>7. IdsAreNew
  BY <1>1, <1>4, IdleFacts DEF IdsAreNew
<1>8. Progress
  BY <1>1, <1>4, IdleFacts DEF Progress, TakesUp, FinalizesSealed
<1>9. Assembled
  BY <1>4, IdleFacts DEF Assembled, Assembles, WholeObjects
<1> QED BY <1>2, <1>3, <1>5, <1>6, <1>7, <1>8, <1>9 DEF WholeInv

LEMMA WholeInvariant ==
  ASSUME "lapse" \notin Faults, "ttl" \notin Faults, NoEmptyChunk, Impatient = FALSE
  PROVE  ClientSpec => [](ServiceInv /\ ClientInv /\ WholeInv)
<1>1. ServiceInv /\ ClientInv /\ WholeInv /\ [ClientNext]_composedVars
        => (ServiceInv /\ ClientInv /\ WholeInv)'
  <2>1. TypeInv /\ LockInv /\ [Next]_vars => (TypeInv /\ LockInv)'
    BY TypeStep, EveryLockStep, LockInvKept DEF TypeInv, StoreOK
  <2>2. ServiceInv /\ [Next]_vars => ServiceInv'
    BY <2>1, BirthKept, PurgeStep DEF ServiceInv, LockInv
  <2> QED BY <2>2, ClientStepServes, ClientInvStep, WholeStep DEF ServiceInv
<1> QED BY <1>1, WholeInit, PTL DEF ClientSpec

(* Who was told that the file is there has the whole of it behind its key. *)
LEMMA AckedIsWhole ==
  ASSUME ClientInv, WholeInv, AckedIsDurable,
         NEW a \in acked, a.op \in {"finalize", "initiate"}
  PROVE  a.decl = file.decl /\ object[ObjectKey(file.decl)] = file.chunks
<1>1. a.decl = file.decl
  BY DEF WholeInv, OwnData
<1>2. PICK f \in File : object[<<a.decl.tenant, f>>] # None
  BY DEF AckedIsDurable
<1> DEFINE k == <<a.decl.tenant, f>>
<1>3. a.decl.tenant \in Tenant
  BY <1>1, ChunkFacts, DeclarationAssumption DEF DeclarationType
<1>4. k \in Key
  BY <1>3 DEF Key
<1> QED BY <1>1, <1>2, <1>4 DEF WholeInv, Assembled, WholeObjects

(* A client that is done has its whole file behind its key: all its chunks *)
(* and no other, in order, whatever it repeated, lost or gave up.          *)
THEOREM FilesAreWhole ==
  ASSUME "lapse" \notin Faults, "ttl" \notin Faults, NoEmptyChunk, Impatient = FALSE
  PROVE  ClientSpec => []FinishedIsWhole
<1>1. ClientInv /\ WholeInv /\ AckedIsDurable => FinishedIsWhole
  <2> SUFFICES ASSUME ClientInv, WholeInv, AckedIsDurable, phase = "done"
               PROVE  object[ObjectKey(file.decl)] = file.chunks
    BY DEF FinishedIsWhole
  <2>1. PICK a \in acked : a.op \in {"finalize", "initiate"}
    BY DEF WholeInv, Exchange
  <2> QED BY <2>1, AckedIsWhole
<1> QED BY <1>1, WholeInvariant, ClientAcksAreDurable, PTL

(* The chunks of a client's file are together of the size it declares.     *)
DeclaredSize == \A f \in Files : TotalSize(f.chunks) = f.decl.total

(* "Zero silent failures" (docs/index.md): the object behind an            *)
(* acknowledged finalize has the size that was declared, if the client     *)
(* that uploaded it starts again after a PATCH that timed out and none of  *)
(* its chunks expires before it is sent (run Expired shows that one may).  *)
THEOREM FinalizedHasItsSize ==
  ASSUME "lapse" \notin Faults, "ttl" \notin Faults, NoEmptyChunk, Impatient = FALSE,
         DeclaredSize
  PROVE  ClientSpec => []FinalizedIsWholeFile
<1>1. ClientInv /\ WholeInv /\ AckedIsDurable => FinalizedIsWholeFile
  <2> SUFFICES ASSUME ClientInv, WholeInv, AckedIsDurable,
                      NEW a \in acked, a.op = "finalize"
               PROVE  TotalSize(object[ObjectKey(a.decl)]) = a.decl.total
    BY DEF FinalizedIsWholeFile
  <2>1. TotalSize(file.chunks) = file.decl.total
    BY DEF DeclaredSize, ClientInv
  <2> QED BY <2>1, AckedIsWhole
<1> QED BY <1>1, WholeInvariant, ClientAcksAreDurable, PTL

(* A client is told that its file is rejected only if one of its chunks    *)
(* has the signature the scanner looks for, and that it is stored only if  *)
(* none has.  A signature across two chunks is in none of them.            *)
THEOREM VerdictsFollowChunks ==
  ASSUME "lapse" \notin Faults, "ttl" \notin Faults, NoEmptyChunk, Impatient = FALSE
  PROVE  ClientSpec => []VerdictFollowsChunks
<1>1. /\ ClientInv /\ FinishedIsWhole /\ RejectedHasThreat /\ ObjectsScannedClean
        => VerdictFollowsChunks
  <2> SUFFICES ASSUME ClientInv, FinishedIsWhole, RejectedHasThreat, ObjectsScannedClean,
                      phase = "done", ChunkHasThreat(file)
               PROVE  FALSE
    BY DEF VerdictFollowsChunks
  <2>1. PICK i \in 1 .. Len(file.chunks) : file.chunks[i] \in Infected
    BY DEF ChunkHasThreat
  <2>2. object[ObjectKey(file.decl)] = file.chunks /\ ObjectKey(file.decl) \in Key
    BY ChunkFacts, DeclarationTypes DEF FinishedIsWhole
  <2>3. file.chunks # None
    BY ClientAssumption, StateAssumption DEF ClientInv, ClientFiles
  <2> QED BY <2>1, <2>2, <2>3 DEF ObjectsScannedClean
<1>2. ClientSpec => []ObjectsScannedClean
  BY ObjectsAreClean, ClientRefines, PTL
<1> QED BY <1>1, <1>2, FilesAreWhole, WholeInvariant, RejectionsAreRight, PTL
=============================================================================
