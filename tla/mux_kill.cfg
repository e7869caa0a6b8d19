SPECIFICATION FairSpec
CONSTANTS
  d1 = d1
  d2 = d2
  Handlers = {h1, h2}
  Serials = {x1}
  Devices = {d1}
  Control = Control
  NoDevice = NoDevice
  Scans <- MCScans1
  MaxSessions = 2
  MaxPorts = 2
PROPERTIES KillRelievesPort
CHECK_DEADLOCK FALSE
