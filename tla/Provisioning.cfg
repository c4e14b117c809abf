SPECIFICATION FairSpec
CONSTANTS
  Size <- WifiHSizes
  ContentSize = 1024
  Default <- Compiled
  Home <- Fits
  Submissions <- Posts
  Garbled <- Mixed
  Absent = Absent
  NotString = NotString
  None = None
  Partial = Partial
  MaxFaults = 2
INVARIANTS TypeOK FinishedSaveIsDurable BootSeeksSaved HalvesAreKnown
PROPERTY Provisioned
\* A gateway online, with nothing left to fail, stays as it is.
CHECK_DEADLOCK FALSE
