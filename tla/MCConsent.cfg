\* Two operators, two versions of a request; two change lists over two work items.
SPECIFICATION ConsentSpec
CONSTANTS
  a = a
  b = b
  mine = mine
  theirs = theirs
  WorkItems <- TwoWorkItems
  Tags <- TwoTags
  FirstBoard <- TwoBoards
  ChangeLists <- TwoRequests
  MaxPackets = 2
  MaxEdits = 1
  MaxSends = 3
  op1 = op1
  op2 = op2
  m1 = m1
  m2 = m2
  accepted = accepted
  rejected = rejected
  Operators <- TwoOperators
  Materials <- TwoMaterials
  Decisions <- TwoDecisions
  Life = 1
  MaxRevision = 2
  MaxGrants = 2
  MaxClock = 1
SYMMETRY Alike
INVARIANTS
  AppliedIsComplete
  AskedOnceAsShown
PROPERTIES
  HumanEditsSurvive
  SerialSpec
  AnswersStand
  ReopeningIsReconciled
CHECK_DEADLOCK FALSE
