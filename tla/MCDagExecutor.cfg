SPECIFICATION FairSpec
CONSTANTS
  hello = hello
  forced = forced
  NumNodes = 7
  Kind <- PlanKind
  Deps <- PlanDeps
  MaxAttempts <- PlanMaxAttempts
  Sorted <- PlanSorted
  Order <- PlanOrder
  Text <- TheText
  NoText = NoText
  InputText <- NoInput
  UserText = UserText
  Enforced <- ForcedReply
  MaxCrashes = 2
  MaxFaults = 1
INVARIANT TypeOK
INVARIANT NoDuplicateEvents
INVARIANT StartedAfterDeps
INVARIANT AttemptsInOrder
INVARIANT EndIsTrue
INVARIANT OneMessagePerNode
PROPERTY NothingAfterVerdict
PROPERTY SuccessIsFinal
PROPERTY EventuallyReturns
PROPERTY ShowsOneRun
