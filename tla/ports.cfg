SPECIFICATION OptionsSpec
CONSTANTS
  d1 = d1
  Devices = {d1}
  Scans <- MCScans
  Found <- MCFound
  Typed <- MCTyped
  Names <- MCNames
  MaxPorts = 3
INVARIANT SettingsPreserved
PROPERTY SessionKeepsSettings
\* the server may end
CHECK_DEADLOCK FALSE
