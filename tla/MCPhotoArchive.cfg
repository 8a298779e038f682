SPECIFICATION ArchSpec
CONSTANTS
  FirstDay = 2
  LastDay = 3
  High = 4
  Low = 3
  MaxPhotos = 2
  MaxFaults = 0
INVARIANT HalfPhotoKept
CHECK_DEADLOCK FALSE
