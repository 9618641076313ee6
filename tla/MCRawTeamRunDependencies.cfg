SPECIFICATION RawSpec
CONSTANTS
  Roles <- ThreeRoles
  Gates <- OneGate
  Consumes <- Chain
  RoleOrder <- InPhases
  RawResults <- PlainReports
INVARIANTS
  DependenciesFirst
CHECK_DEADLOCK FALSE
