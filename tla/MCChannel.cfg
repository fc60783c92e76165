CONSTANTS
  Rates = {1, 5}
  ChunkSamples = 3
  MaxSamples = 10
  FullScale = 2
  Hop = 2
  Recorded <- MCRecorded
  Layouts <- MCLayouts
  Curves <- MCCurves
  Cursors <- MCCursors
  Edited <- MCEdited
  Named <- MCNamed
  Meshes = {m1, m2}
  MaxActions = 5
  MaxUsed = 2
SYMMETRY MCMeshes
SPECIFICATION Spec
INVARIANTS TypeOK WholeChannelHeard TimelineIsAuthored
PROPERTY BakeIsWhole
CHECK_DEADLOCK FALSE
