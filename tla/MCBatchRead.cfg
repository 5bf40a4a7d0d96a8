SPECIFICATION Spec
CONSTANTS
  NumNodes = 2
  Args <- SmallArgs
  Width = 2
  Threads = 2
  MaxPending = 1
  MaxFaults = 2
CHECK_DEADLOCK FALSE
INVARIANTS NoDesync ReturnsAllUnlessOverwritten ClosedAtEnd NeverStuck
