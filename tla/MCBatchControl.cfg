\* Three workspaces with up to three sessions each; one or two jobs, every failure policy.
CONSTANTS
    NLinks = 3
    MaxMatched = 3
    Jobs = {1, 2}
    MaxFailures = {0, 1, 2}
    Limits = {2, 3}
SPECIFICATION FairSpec
INVARIANTS HonestAnswer JobsPerLink
PROPERTIES BudgetPerLink EventuallyAnswers
CHECK_DEADLOCK FALSE
