SPECIFICATION Spec
CONSTANTS
  d1 = d1
  d2 = d2
  Handlers = {h1, h2}
  Serials = {x1, x2}
  Devices = {d1, d2}
  Control = Control
  NoDevice = NoDevice
  Scans <- MCScans2
  MaxSessions = 3
  MaxPorts = 2
SYMMETRY Symmetry
INVARIANTS TypeOK RegistryLive StateShown EntryExclusive DeviceShownIsHeld
PROPERTIES RowLostOnlyByRefresh ImplementsLease
CHECK_DEADLOCK FALSE
