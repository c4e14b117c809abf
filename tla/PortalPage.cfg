SPECIFICATION FairSpec
CONSTANTS
  Ssids = {ap1, ap2}
  Names = {own}
  MaxItems = 2
  MaxGets = 3
  MaxPosts = 1
  NoName = NoName
  NoAnswer = NoAnswer
  NoChoice = NoChoice
INVARIANTS TypeOK ListChoicePosted ButtonTellsRefresh
PROPERTY ButtonComesBack
