SPECIFICATION FairSpec
CONSTANTS
  FileBlocks = 2
  U8 = 3
  MaxUploads = 2
INVARIANTS
  UploadEndsLoaded
