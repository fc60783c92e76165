CONSTANTS
  Builders = {p1, p2, p3}
  Files = {worker, library}
  Artifacts = 2
  Size = 2
  MaxChunks = 3
  MaxRuns = 4
  MaxFailures = 2
SYMMETRY MCBuilders
SPECIFICATION Spec
INVARIANTS TypeOK PublishedIsWhole
PROPERTY OwnWorkIsPublished
CHECK_DEADLOCK FALSE
