SPECIFICATION Spec
CONSTANTS
  MAX_WIFI_LIST_SIZE = 2
  AccessPoints = {a, b}
  MaxFound = 3
  Zero = Zero
  Wild = Wild
INVARIANT ListWithinMaximum
