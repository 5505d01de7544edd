SPECIFICATION Spec
CONSTANTS
  c1 = c1
  c2 = c2
  r1 = r1
  r2 = r2
  MaxVer = 4
  Chunks <- TwoChunks
  Req <- OneReq
  VersionCount = 1
  MaxFault = 1
  Overlap = FALSE
  Ops = {"upload", "abandon", "restore", "delete", "prune", "expire", "hold", "download", "reject"}
  Faults = {"crash", "count", "chunks"}
INVARIANTS
  VersionsDownloadable
PROPERTIES
  HoldFreezesVersions
