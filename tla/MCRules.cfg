CONSTANTS
  MaxNodes = 3
  MaxDeps = 2
  Rewards = {450, 500, 900}
  MaxForced = 2
SPECIFICATION Spec
CHECK_DEADLOCK FALSE
INVARIANTS OrderIsRight ChoiceIsSound RewardIsFair InputIsFitted
