SPECIFICATION FairSpec
CONSTANTS
  MaxClust = 5
  FatSectSize = 3
  SectsClust = 2
  SectSize = 2
  Slots = {1, 2}
  Name = {n1, n2}
  NoName = NoName
  WriteSizes = {5}
  DirName = n2
  MaxMishaps = 1
  GoesOnWhenFull = FALSE
  TouchesOpenLog = FALSE
INVARIANTS CardIsSound DataIsKept CurrentSector SyncedIsOnCard NothingIsLost
PROPERTIES CallReturns
