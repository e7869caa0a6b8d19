SPECIFICATION Spec
CONSTANTS
  Letters <- MCLetters
  Users <- MCUsers
  Passes <- MCPasses
  Realms <- MCRealms
  Targets <- MCTargets
  Others <- MCOthers
  MaxRuns = 2
  MaxRequests = 1
INVARIANTS AcceptedIsCurrent KnownIsAccepted SessionNamed
\* nobody need run the tool, and MaxRuns and MaxRequests end the run
CHECK_DEADLOCK FALSE
