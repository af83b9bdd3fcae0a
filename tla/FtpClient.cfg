SPECIFICATION FairSpec
CONSTANTS
  Programs <- Both
  FileBlocks = 3
  MaxTries = 3
  MaxLong = 3
  MaxRefusals = 2
INVARIANTS TypeOK OneAtATime LoginHonest TransfersWhole GluedOnlyInDownloads
PROPERTY Finishes
CHECK_DEADLOCK FALSE
