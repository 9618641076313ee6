\* One commit of a person, or one failure.
SPECIFICATION PullSpec
CONSTANTS
  Pulls <- TwoPulls
  Overlapping <- Alone
  IssueNumbers <- TwoPulls
  Settings <- ForTwoIssues
  Cycles <- OneCycle
  MaxHead = 2
  MaxSurprises = 1
PROPERTY MergedHeadReviewed
