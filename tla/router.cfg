SPECIFICATION Spec
CONSTANTS
  Slash = 0
  Routes <- MCRoutes
  Paths <- MCPaths
  Targets <- MCTargets
  MaxRoutes = 3
INVARIANTS LeafFound RouteFound Greatest Guarded
\* a request is answered, and the next one is like it
CHECK_DEADLOCK FALSE
