SPECIFICATION Spec
CONSTANTS
  Nobody = Nobody
  p1 = p1
  p2 = p2
  a = a
  b = b
  c = c
  Processes = {p1, p2}
  Threads = {a, b, c}
  ProcessOf <- MCProcessOf
  Recursive = TRUE
  Calls = {"lock", "timed_lock"}
  ThreadsEnd = TRUE
  MaxHeld = 2
  CounterRange = 2
  Boot = 1
  LastNano = 3
  MaxTicks = 0
INVARIANT ExclusiveInProcess
SYMMETRY Alike
