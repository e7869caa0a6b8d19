SPECIFICATION Spec
CONSTANTS
  Codes <- MCLetter
  Junk = Junk
  MaxTyped = 2
INVARIANT InputRedirected
\* the device may be idle, and MaxTyped ends the run
CHECK_DEADLOCK FALSE
