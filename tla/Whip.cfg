SPECIFICATION Spec
CONSTANTS
  api = api
  None = None
  MaxPublish = 2
  Caller <- MCCaller
  Kinds <- AllKinds
  MaxEvents = 3
  Width = 2
INVARIANTS TypeOK BridgeHasPeer NoStray LeavesNothing GuestLeaves InTurn
CHECK_DEADLOCK FALSE
