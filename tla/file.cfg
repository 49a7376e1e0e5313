SPECIFICATION FairSpec
CONSTANTS
  FileBlocks = 5
  U8 = 3
  MaxUploads = 3
INVARIANTS
  WholeFile
  HandlerOnce
PROPERTIES
  UploadReturns
