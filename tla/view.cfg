SPECIFICATION LiveSpec
CONSTANTS
  v1 = v1
  v2 = v2
  Viewers <- Two
  None = None
  Gone = Gone
  Setups <- MCSetups
INVARIANTS TypeOK LinesAreWhole
PROPERTIES FramesInOrder LoneViewerIsFed
