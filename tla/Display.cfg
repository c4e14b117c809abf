SPECIFICATION Spec
CONSTANTS
  WIDTH = 12
  HEIGHT = 24
  Font <- MCFont
  BigFonts <- MCBigFonts
  Picture <- Battery
  Places <- MCPlaces
  Sizes = {12}
  Texts <- MCTexts
  Numbers = {7}
  MaxCalls = 2
  MaxLost = 1
  NONE = NONE
  TextBound = 5
INVARIANTS TypeOK ShowsLastRefresh LineJoinsEnds TextReads NumberReads
