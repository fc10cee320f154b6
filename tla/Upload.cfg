CONSTANTS
  Uploads = {u1}
  Requests = {r1, r2}
  Size = 3
  ChunkSize = 2
  WholeCodec = "raw"
  ChunkedCodec = "zstd"
  None = None
  MaxFailures = 1
  MaxCrashes = 1
SPECIFICATION Spec
INVARIANT TypeOK
INVARIANT StoredIsDeclared
INVARIANT NothingLost
INVARIANT Exclusive
INVARIANT ServedIsBlob
SYMMETRY Symmetry
