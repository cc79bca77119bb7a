SPECIFICATION ClientSpec
CONSTANTS
  r1 = r1  r2 = r2  s1 = s1  s2 = s2  t1 = t1  f1 = f1
  c1 = c1  c2 = c2  u1 = u1  u2 = u2  u3 = u3
  head = head  tail = tail  virus = virus
  None = None
  Tenant = {t1}
  File = {f1}
  Checksum = {c1, c2}
  Declarations <- Declared
  Req = {r1, r2}
  Session = {s1, s2}
  Index <- MCIndex
  Payload <- MCPayload
  Size <- MCSize
  Infected = {virus}
  ChunkRequests <- MCRequests
  MinChunk = 5
  MaxChunk = 50
  UploadId = {u1, u2, u3}
  Faults = {"ttl"}
  Files <- OneClean
  Impatient = FALSE
  MaxFaults = 2
INVARIANT FinalizedIsWholeFile
\* The client ends.
CHECK_DEADLOCK FALSE
