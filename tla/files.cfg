SPECIFICATION Spec
CONSTANTS
  Names = {a, b}
  NoName = NoName
  Programs = {p, q}
  LastBlock = 3
  BlockSize = 2
  LastFd = 4
  BufferSize = 3
  Lengths = {3}
  StaleStarts <- Kept
  MaxOpen = 0
SYMMETRY Renamings
INVARIANTS
  FTypeOK
  ChainsApart
  ChainsHoldSize
  RecordedUnlessFull
  WritesAtEnd
  OpenFilesStay
PROPERTIES
  NoBlockForgotten
  FilesAsPromised
