SPECIFICATION FairSpec
CONSTANTS
  Depth = 4
  TxDepth = 4
  Images = {3, 4, 9}
  Pause = 2
  WaitsFor = "EMPTY"
INVARIANTS
  StreamInOrder PortAnswers IndicesTrack
PROPERTIES
  PayloadComplete ImageArrives
