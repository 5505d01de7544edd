SPECIFICATION Spec
CONSTANTS
  c1 = c1
  c2 = c2
  r1 = r1
  r2 = r2
  MaxVer = 4
  Chunks <- OneChunk
  Req <- TwoReqs
  VersionCount = 3
  MaxFault = 1
  Overlap = TRUE
  Ops = {"upload", "abandon", "restore", "prune", "during", "download", "reject"}
  Faults = {"crash"}
SYMMETRY Symmetry
INVARIANTS
  VersionsDownloadable
  DownloadDecrypts
