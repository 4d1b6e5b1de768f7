SPECIFICATION Spec
CONSTANTS
  api = api
  None = None
  MaxPublish = 2
  Caller <- MCCaller
  Kinds <- Persistent
  MaxEvents = 3
  Width = 2
PROPERTY ReapsItsOwn
CHECK_DEADLOCK FALSE
