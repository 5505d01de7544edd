SPECIFICATION Spec
CONSTANTS
  c1 = c1
  c2 = c2
  r1 = r1
  r2 = r2
  MaxVer = 4
  Chunks <- OneChunk
  Req <- OneReq
  VersionCount = 1
  MaxFault = 1
  Overlap = FALSE
  Ops = {"upload", "abandon", "late", "restore", "restoreEmpty", "delete", "deletePending", "during", "prune", "expire", "hold", "download", "reject"}
  Faults = {"crash", "hold", "chunks", "refs", "max", "count", "download"}
INVARIANTS
  TypeOK
  CurrentRowExists
