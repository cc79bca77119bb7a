SPECIFICATION Spec
CONSTANTS
  r1 = r1  r2 = r2  s1 = s1  s2 = s2  t1 = t1  t2 = t2  f1 = f1
  c1 = c1  c2 = c2  u1 = u1  u2 = u2  u3 = u3
  head = head  tail = tail  virus = virus  empty = empty  huge = huge
  None = None
  Tenant = {t1}
  File = {f1}
  Checksum = {c1}
  Declarations <- OneSmallFile
  Req = {r1, r2}
  Session = {s1}
  Index <- OneIndex
  Payload <- MCPayload
  Size <- MCSize
  Infected = {virus}
  ChunkRequests <- OneChunk
  MinChunk = 5
  MaxChunk = 50
  UploadId = {u1, u2, u3}
  Faults = {"crash", "cancel", "lapse", "ttl", "redis", "s3", "nats"}
PROPERTY ImplementsIngest
PROPERTY HandlersKeepToLock
SYMMETRY SymmetricUploads
