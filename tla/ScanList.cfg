SPECIFICATION FairSpec
CONSTANTS
  MAX_WIFI_LIST_SIZE = 2
  AccessPoints = {a, b}
  MaxFound = 3
  Zero = Zero
  Wild = Wild
INVARIANTS TypeOK RecordsFit SettledTable UndisturbedListIsScan
PROPERTY RequestsEnd
