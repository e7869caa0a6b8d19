SPECIFICATION FairSpec
CONSTANTS
  Nobody = Nobody
  p1 = p1
  p2 = p2
  a = a
  b = b
  c = c
  Processes = {p1, p2}
  Threads = {a, b, c}
  ProcessOf <- MCProcessOf
  Recursive = FALSE
  Calls = {"lock", "try_lock"}
  ThreadsEnd = TRUE
  MaxHeld = 1
  CounterRange = 8
  Boot = 3
  LastNano = 2
  MaxTicks = 1
INVARIANTS HolderHasFile FileUnderMutex
PROPERTIES ImplementsLock TryReturns
