SPECIFICATION FairSpec
CONSTANTS
  Clients = {1, 2}
  Requests <- MCRequests
  MaxRequests <- MCMaxRequests
  MaxAnswers = 2
INVARIANTS Timed
PROPERTIES ImplementsExchange Accepted SessionEnds
\* clients may stay away, and MaxRequests ends the run
CHECK_DEADLOCK FALSE
