CONSTANTS
  Runs = {"r1", "r2"}
  Chats = {"c1", "c2"}
  MaxSends = 2
  MaxTokens = 1
  MaxActs = 4
SPECIFICATION FairSpec
INVARIANTS TypeOK OneInterval MessagesAreTrue
PROPERTIES PolledIsShown ComposerReturns
CHECK_DEADLOCK FALSE
