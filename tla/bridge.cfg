SPECIFICATION BridgeFairSpec
CONSTANTS
  MaxSends = 4
  Codes <- MCUp
  Junk = Junk
  MaxTyped = 2
INVARIANTS OneWriteOfFront NeverStuck OneKeyAtATime KeysNeverStuck OneWritePerCode
PROPERTIES ImplementsFifo ImplementsLink ReadIsShown
\* the server may be idle, and MaxSends and MaxTyped end the run
CHECK_DEADLOCK FALSE
