SPECIFICATION Spec
CONSTANTS
  Ssids = {ap1, ap2}
  Names = {own}
  MaxItems = 1
  MaxGets = 2
  MaxPosts = 1
  NoName = NoName
  NoAnswer = NoAnswer
  NoChoice = NoChoice
INVARIANT TypedNamePosted
