SPECIFICATION CopySpec
CONSTANTS
  NoReq = NoReq
  MinBlocks = 2
  TransferSetups <- SerialMove
  StageSetups <- OddBlocks
  FileSetups <- NoFiles
INVARIANT MoveKeepsData
CHECK_DEADLOCK FALSE
