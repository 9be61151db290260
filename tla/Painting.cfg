\* Two targets and two channels, calls that fail, strokes that the engine cancels.
SPECIFICATION FairSpec
CONSTANTS
  Targets = {s, t}
  Mmu = mmu
  Channels = {mmu, seam}
  Faults = {"business", "internal"}
  MaxProject = 1
INVARIANTS StrokeHasAnEnd   NothingPaintedIsLost 
PROPERTIES StrokesSettle
CHECK_DEADLOCK FALSE
