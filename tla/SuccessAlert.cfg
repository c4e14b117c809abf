SPECIFICATION Spec
CONSTANTS
  Size <- WifiHSizes
  ContentSize = 1024
  Default <- Compiled
  Home <- Fits
  Submissions <- Posts
  Garbled <- Mixed
  Absent = Absent
  NotString = NotString
  None = None
  Partial = Partial
  MaxFaults = 0
INVARIANT SuccessAlertIsTrue
\* A gateway online, with nothing left to fail, stays as it is.
CHECK_DEADLOCK FALSE
