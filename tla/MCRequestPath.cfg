CONSTANTS
  Names <- MCNames
  Bodies <- MCBodies
  Actions <- MCActions
  PrincipalPred <- MCPrincipalPred
  ActionPred <- MCActionPred
  Condition <- MCCondition
  Kinds <- MCKinds
  Edits <- MCEdits
  Requests = {r1}
  AuthOptional = TRUE
  DeniedStatus = "none"
  MaxEdits = 2
SPECIFICATION FairSpec
CHECK_DEADLOCK FALSE
INVARIANTS ForwardedWasAllowed FetchedOnce EventTellsOutcome
PROPERTIES Decided
