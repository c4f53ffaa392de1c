SPECIFICATION Spec
CONSTANTS
  Blocking = {b1}
  Streaming = {s1}
  HistoryLimit = 3
  Turns = 2
  Batch = 2
  Earlier = 2
  MaxTokens = 2
  MaxFaults = 2
INVARIANT TypeOK
INVARIANT ChatIsTrue
PROPERTY PromptIsThePast
